---- MODULE Spec2Model ----
(***************************************************************************)
(* simple-dep-cache: a dependency-tracking cache in front of Redis.        *)
(*                                                                         *)
(* The module models                                                       *)
(*   - the Redis store as driven by RedisCacheBackend (string keys with a  *)
(*     TTL, one set per dependency tag with a TTL, the passage of time),   *)
(*   - the JSON serializer (dump / load are not inverse of one another),   *)
(*   - the operation context stack of context.py,                          *)
(*   - the sync wrapper of cache_with_deps as a step machine.              *)
(*                                                                         *)
(* Two specifications share the variables:                                 *)
(*   StoreSpec  manager-level set / delete / clear / invalidate / time     *)
(*   Spec       decorated calls running against the same store             *)
(***************************************************************************)
EXTENDS Integers, Sequences, FiniteSets, TLC

(***************************************************************************)
(* Bounds                                                                  *)
(***************************************************************************)
\* largest TTL (in ticks of the clock) an entry can be given
MaxTTL == 2

\* logical keys and dependency tags used directly through the manager; one
\* tag carries the name of a key, both being plain strings of the caller
ManualKeys == {"k1", "k2"}
ManualTags == {"A", "k1"}

\* keys derived for the decorated functions (one argument tuple each)
FuncNames == {"o", "i", "f"}
FuncKey(fn) == IF fn = "o" THEN "key_o" ELSE IF fn = "i" THEN "key_i" ELSE "key_f"
FuncKeys == {FuncKey(fn) : fn \in FuncNames}
FuncTags == {"o", "i", "x"}

Keys == ManualKeys \cup FuncKeys
Tags == ManualTags \cup FuncTags

(***************************************************************************)
(* Python values and their JSON form                                       *)
(***************************************************************************)
\* ttl argument None
TTL_NONE == -1
\* replies of the Redis TTL command
REDIS_PERSISTENT == -1
REDIS_MISSING == -2

TtlArgs == {TTL_NONE} \cup (0..MaxTTL)

\* Python truthiness of a ttl argument: "if ttl:"
Truthy(ttl) == ttl # TTL_NONE /\ ttl # 0

Val(kind, data) == [kind |-> kind, data |-> data, cls |-> "", msg |-> "", dyn |-> FALSE]
ExcVal(cls, msg) == [kind |-> "exc", data |-> "", cls |-> cls, msg |-> msg, dyn |-> FALSE]
PyNone == Val("none", "")

\* JSON documents held by Redis; NoDoc is the reply for a missing key
Doc(j, data) == [j |-> j, data |-> data, cls |-> "", msg |-> ""]
NoDoc == Doc("nil", "")

\* exception classes: the classes an instance is an instance of, and whether
\* module.class can be imported again when a cached exception is decoded
ExcBases(cls) ==
  CASE cls = "ValueError" -> {"ValueError", "Exception", "BaseException"}
    [] cls = "LocalValueError" -> {"LocalValueError", "ValueError", "Exception", "BaseException"}
    [] cls = "TypeError" -> {"TypeError", "Exception", "BaseException"}
    [] cls = "KeyError" -> {"KeyError", "LookupError", "Exception", "BaseException"}
    [] cls = "KeyboardInterrupt" -> {"KeyboardInterrupt", "BaseException"}
    [] cls = "ConnectionError" -> {"ConnectionError", "Exception", "BaseException"}
    [] cls = "RuntimeError" -> {"RuntimeError", "Exception", "BaseException"}
    [] OTHER -> {cls}

Importable(cls) == cls # "LocalValueError"

isinstance(exc, cls) ==
  /\ exc.kind = "exc"
  /\ IF exc.dyn THEN cls \in {exc.cls, "Exception", "BaseException"}
                ELSE cls \in ExcBases(exc.cls)

\* repr() of a string
repr(text) == "'" \o text \o "'"

\* str(exc) for an instance made with one argument, kept in msg: KeyError
\* shows the repr of its argument, the other classes and every class made
\* by create_dynamic_exception show the argument itself
str(exc) == IF exc.cls = "KeyError" /\ ~exc.dyn THEN repr(exc.msg) ELSE exc.msg

\* BaseSerializer.exception_to_dict
exception_to_dict(exc) == [j |-> "cached_exception", data |-> "", cls |-> exc.cls, msg |-> str(exc)]

\* DynamicImporter.safe_load_exception
safe_load_exception(cls, msg) ==
  IF Importable(cls) THEN ExcVal(cls, msg)
  ELSE [kind |-> "exc", data |-> "", cls |-> cls, msg |-> msg, dyn |-> TRUE]

\* JSONSerializer.dump
dump(obj) ==
  IF obj.kind = "exc" THEN exception_to_dict(obj)
  ELSE CASE obj.kind = "none" -> Doc("null", "")
         [] obj.kind = "int" -> Doc("number", obj.data)
         [] obj.kind = "bool" -> Doc("boolean", obj.data)
         [] obj.kind = "str" -> Doc("string", obj.data)
         [] obj.kind = "list" -> Doc("array", obj.data)
         [] obj.kind = "tuple" -> Doc("array", obj.data)

\* JSONSerializer.load
load(doc) ==
  CASE doc.j = "cached_exception" -> safe_load_exception(doc.cls, doc.msg)
    [] doc.j = "null" -> PyNone
    [] doc.j = "number" -> Val("int", doc.data)
    [] doc.j = "boolean" -> Val("bool", doc.data)
    [] doc.j = "string" -> Val("str", doc.data)
    [] doc.j = "array" -> Val("list", doc.data)

(***************************************************************************)
(* The Redis store: commands                                               *)
(***************************************************************************)
VARIABLES
  store,      \* Redis: cache[k] document, cacheTtl[k], deps[t] member set, depsTtl[t]
  last,       \* the last manager operation and what it returned
  lastSet,    \* per key: whether it was ever set, and the tags of its latest set
  scen,       \* per tag: the keys set with the tag while nothing else touched them
  live,       \* per key: the entry that the operations made so far should have left
  cfg,        \* the decorated program under test: which functions, f's decorator and body
  statics,    \* per decorated function: the set object passed as dependencies=
  opstack,    \* context.py: the operation stack held by the ContextVar
  calls,      \* the wrapper invocations in progress, innermost last
  intact,     \* per function: nothing was removed since its entry was last persisted
  prev,       \* per function: the outcome of its latest finished call
  invalO,     \* tags invalidated while o's result was cached, since o's latest lookup
  lastCall,   \* the wrapper invocation that finished last
  heap,       \* the CacheOperation objects alive, by identity
  tasks,      \* per thread or task: whether it runs, and the list its ContextVar holds
  actor,      \* the thread or task that made the last context call
  lastCtx,    \* the last call of context.py made on opstack, and what it returned
  managers,   \* manager.py: the registry _managers, by name
  configs,    \* the configuration objects: prefix and whether caching is enabled
  lastGet,    \* the last get_or_create_cache_manager call and what it returned
  procs,      \* clients running one backend operation each, Redis command by command
  keyCalls,   \* two calls of one decorated function: positional and keyword arguments
  keyOut,     \* the cache keys generated for the two calls
  excs,       \* one function that raises: the instance raised, the instance a hit raised
  threads     \* threads in get_or_create_cache_manager: the lock, the registry, their positions

storeVars == <<store, last, lastSet, scen, live>>
decoVars == <<cfg, statics, opstack, calls, intact, prev, invalO, lastCall>>
ctxVars == <<heap, tasks, actor, lastCtx>>
regVars == <<managers, configs, lastGet>>
raceVars == <<procs>>
keyVars == <<keyCalls, keyOut>>
excVars == <<excs>>
thrVars == <<threads>>
vars == <<store, last, lastSet, scen, live, cfg, statics, opstack, calls, intact, prev, invalO, lastCall,
          heap, tasks, actor, lastCtx, managers, configs, lastGet, procs, keyCalls, keyOut, excs, threads>>

\* no client of the backend is running; no key has been asked for
RaceIdle == procs = <<>>
KeyIdle == keyCalls = <<>> /\ keyOut = <<>>
ExcIdle == excs = <<>>
ThrIdle == threads = <<>>

EmptyStore ==
  [cache |-> [k \in Keys |-> NoDoc],
   cacheTtl |-> [k \in Keys |-> REDIS_MISSING],
   deps |-> [t \in Tags |-> {}],
   depsTtl |-> [t \in Tags |-> REDIS_MISSING]]

\* SET key value
redis_set(r, k, doc) == [r EXCEPT !.cache[k] = doc, !.cacheTtl[k] = REDIS_PERSISTENT]
\* SETEX key ttl value
redis_setex(r, k, ttl, doc) == [r EXCEPT !.cache[k] = doc, !.cacheTtl[k] = ttl]
\* GET key
redis_get(r, k) == r.cache[k]
\* EXISTS key
redis_exists(r, k) == r.cache[k] # NoDoc
\* SADD set member: a set created by SADD has no expiry
redis_sadd(r, t, k) ==
  [r EXCEPT !.deps[t] = @ \cup {k},
            !.depsTtl[t] = IF r.deps[t] = {} THEN REDIS_PERSISTENT ELSE @]
\* SMEMBERS set
redis_smembers(r, t) == r.deps[t]
\* TTL of a dependency set
redis_ttl(r, t) == IF r.deps[t] = {} THEN REDIS_MISSING ELSE r.depsTtl[t]
\* EXPIRE set ttl
redis_expire(r, t, ttl) == IF r.deps[t] = {} THEN r ELSE [r EXCEPT !.depsTtl[t] = ttl]
\* DEL of cache keys: the reply counts the keys that existed
redis_delete(r, ks) ==
  [r EXCEPT !.cache = [k \in Keys |-> IF k \in ks THEN NoDoc ELSE @[k]],
            !.cacheTtl = [k \in Keys |-> IF k \in ks THEN REDIS_MISSING ELSE @[k]]]
redis_delete_count(r, ks) == Cardinality({k \in ks : redis_exists(r, k)})
\* DEL of a dependency set
redis_delete_set(r, ts) ==
  [r EXCEPT !.deps = [t \in Tags |-> IF t \in ts THEN {} ELSE @[t]],
            !.depsTtl = [t \in Tags |-> IF t \in ts THEN REDIS_MISSING ELSE @[t]]]

\* one second passes: every expiry comes one tick closer, and what reaches
\* zero is removed
redis_tick(r) ==
  [cache |-> [k \in Keys |-> IF r.cacheTtl[k] = 1 THEN NoDoc ELSE r.cache[k]],
   cacheTtl |-> [k \in Keys |-> IF r.cacheTtl[k] = 1 THEN REDIS_MISSING
                                 ELSE IF r.cacheTtl[k] > 1 THEN r.cacheTtl[k] - 1
                                 ELSE r.cacheTtl[k]],
   deps |-> [t \in Tags |-> IF r.depsTtl[t] = 1 THEN {} ELSE r.deps[t]],
   depsTtl |-> [t \in Tags |-> IF r.depsTtl[t] = 1 THEN REDIS_MISSING
                                ELSE IF r.depsTtl[t] > 1 THEN r.depsTtl[t] - 1
                                ELSE r.depsTtl[t]]]

(***************************************************************************)
(* RedisCacheBackend                                                       *)
(***************************************************************************)
\* variant: the index TTL is set to the key's TTL without the comparison
set_dependency_always_expire(r, k, ttl, dep) ==
  LET r1 == redis_sadd(r, dep, k)
  IN IF Truthy(ttl) THEN redis_expire(r1, dep, ttl) ELSE r1

\* the body of "for dep in dependencies" for one tag
set_dependency(r, k, ttl, dep) ==
  LET r1 == redis_sadd(r, dep, k)
      current_ttl == redis_ttl(r1, dep)
  IN IF Truthy(ttl)
       THEN IF current_ttl = REDIS_PERSISTENT
               \/ (current_ttl # REDIS_MISSING /\ current_ttl < ttl)
              THEN redis_expire(r1, dep, ttl)
              ELSE r1
       ELSE r1

RECURSIVE set_dependencies(_, _, _, _)
set_dependencies(r, k, ttl, dependencies) ==
  IF dependencies = {} THEN r
  ELSE LET dep == CHOOSE d \in dependencies : TRUE
       IN set_dependencies(set_dependency(r, k, ttl, dep), k, ttl, dependencies \ {dep})

\* variant: the value is written with NX, an existing entry keeps its value
backend_set_if_absent(r, k, value, ttl, dependencies) ==
  LET serialized_value == dump(value)
      r1 == IF redis_exists(r, k) THEN r
            ELSE IF Truthy(ttl) THEN redis_setex(r, k, ttl, serialized_value)
                                ELSE redis_set(r, k, serialized_value)
  IN set_dependencies(r1, k, ttl, dependencies)

\* RedisCacheBackend.set
backend_set(r, k, value, ttl, dependencies) ==
  LET serialized_value == dump(value)
      r1 == IF Truthy(ttl) THEN redis_setex(r, k, ttl, serialized_value)
                           ELSE redis_set(r, k, serialized_value)
  IN set_dependencies(r1, k, ttl, dependencies)

\* RedisCacheBackend.get: None for a missing key, else the decoded value
backend_get(r, k) ==
  LET value == redis_get(r, k)
  IN IF value = NoDoc THEN PyNone ELSE load(value)

\* RedisCacheBackend.delete
backend_delete(r, ks) == redis_delete(r, ks)
backend_delete_count(r, ks) == redis_delete_count(r, ks)

\* RedisCacheBackend.clear("*"): the scan of "prefix:*" also matches the
\* dependency sets "prefix:deps:tag"
backend_clear(r) ==
  redis_delete_set(redis_delete(r, Keys), Tags)
backend_clear_count(r) ==
  Cardinality({k \in Keys : redis_exists(r, k)}) + Cardinality({t \in Tags : r.deps[t] # {}})

\* variant: the invalidation goes on to the tags named after the deleted keys
invalidate_dependency_transitive(r, dependency) ==
  LET cache_keys == redis_smembers(r, dependency)
      named == cache_keys \cap Tags
      further == UNION {redis_smembers(r, t) : t \in named}
  IN IF cache_keys = {} THEN r
     ELSE redis_delete_set(redis_delete(r, cache_keys \cup further), {dependency} \cup named)

\* RedisCacheBackend.invalidate_dependency: the store afterwards
invalidate_dependency(r, dependency) ==
  LET cache_keys == redis_smembers(r, dependency)
  IN IF cache_keys = {} THEN r
     ELSE redis_delete_set(redis_delete(r, cache_keys), {dependency})

\* variant: the index key is deleted in the same DEL and counted
invalidate_dependency_count_with_index(r, dependency) ==
  LET cache_keys == redis_smembers(r, dependency)
  IN IF cache_keys = {} THEN 0 ELSE redis_delete_count(r, cache_keys) + 1

\* RedisCacheBackend.invalidate_dependency: the count returned
invalidate_dependency_count(r, dependency) ==
  LET cache_keys == redis_smembers(r, dependency)
  IN IF cache_keys = {} THEN 0 ELSE redis_delete_count(r, cache_keys)

(***************************************************************************)
(* History kept for the properties                                         *)
(***************************************************************************)
\* op: the operation; key, ttl: the arguments of a set; ret: the value returned;
\* clean: for an invalidation, whether only sets had touched the tag's keys
Op(op, key, ttl, ret, clean) == [op |-> op, key |-> key, ttl |-> ttl, ret |-> ret, clean |-> clean]
NoLast == Op("init", "", TTL_NONE, 0, FALSE)

NeverSet == [ever |-> FALSE, tags |-> {}]
Fresh == [ok |-> TRUE, keys |-> {}]
Dirty == [ok |-> FALSE, keys |-> {}]

\* keys and dependency sets that the next tick removes
ExpiringKeys(r) == {k \in Keys : r.cacheTtl[k] = 1}
ExpiringTags(r) == {t \in Tags : r.depsTtl[t] = 1}

\* the entry of a key as the operations so far define it: created or
\* overwritten by a set, with the seconds left to it (0: no expiry);
\* replaced: the latest set found an entry with another value
Entry(val, left, replaced) == [present |-> TRUE, val |-> val, left |-> left, replaced |-> replaced]
NoEntry == [present |-> FALSE, val |-> PyNone, left |-> 0, replaced |-> FALSE]
LiveSet(k, value, ttl) ==
  [live EXCEPT ![k] = Entry(value, IF Truthy(ttl) THEN ttl ELSE 0,
                            live[k].present /\ live[k].val # value)]
LiveRemove(ks) == [k \in Keys |-> IF k \in ks THEN NoEntry ELSE live[k]]
LiveTick ==
  [k \in Keys |-> IF live[k].left = 1 THEN NoEntry
                   ELSE IF live[k].left > 1 THEN [live[k] EXCEPT !.left = @ - 1]
                   ELSE live[k]]

ScenSet(k, tags) ==
  [t \in Tags |-> IF t \in tags THEN [scen[t] EXCEPT !.keys = IF scen[t].ok THEN @ \cup {k} ELSE {}]
                  ELSE IF k \in scen[t].keys THEN Dirty ELSE scen[t]]
ScenDelete(ks) ==
  [t \in Tags |-> IF scen[t].keys \cap ks # {} THEN Dirty ELSE scen[t]]
ScenInvalidate(tag, members) ==
  [t \in Tags |-> IF t = tag THEN (IF scen[t].ok THEN Fresh ELSE Dirty)
                  ELSE IF scen[t].keys \cap members # {} THEN Dirty ELSE scen[t]]
ScenTick(r) ==
  [t \in Tags |-> IF t \in ExpiringTags(r) \/ scen[t].keys \cap ExpiringKeys(r) # {}
                  THEN Dirty ELSE scen[t]]

(***************************************************************************)
(* CacheManager operations (manager.py), each one whole call               *)
(***************************************************************************)
\* CacheManager.set
ManagerSet(k, value, ttl, dependencies) ==
  /\ store' = backend_set(store, k, value, ttl, dependencies)
  /\ last' = Op("set", k, ttl, 0, FALSE)
  /\ lastSet' = [lastSet EXCEPT ![k] = [ever |-> TRUE, tags |-> dependencies]]
  /\ scen' = ScenSet(k, dependencies)
  /\ live' = LiveSet(k, value, ttl)

\* CacheManager.delete
ManagerDelete(k) ==
  /\ store' = backend_delete(store, {k})
  /\ last' = Op("delete", "", TTL_NONE, backend_delete_count(store, {k}), FALSE)
  /\ scen' = ScenDelete({k})
  /\ live' = LiveRemove({k})
  /\ UNCHANGED lastSet

\* CacheManager.clear
ManagerClear ==
  /\ store' = backend_clear(store)
  /\ last' = Op("clear", "", TTL_NONE, backend_clear_count(store), FALSE)
  /\ scen' = [t \in Tags |-> Fresh]
  /\ live' = LiveRemove(Keys)
  /\ UNCHANGED lastSet

\* CacheManager.invalidate_dependency
ManagerInvalidate(tag) ==
  /\ store' = invalidate_dependency(store, tag)
  /\ last' = Op("invalidate", "", TTL_NONE, invalidate_dependency_count(store, tag), scen[tag].ok)
  /\ scen' = ScenInvalidate(tag, redis_smembers(store, tag))
  /\ live' = LiveRemove(redis_smembers(store, tag))
  /\ UNCHANGED lastSet

\* the clock of the Redis server advances by one second
Tick ==
  /\ \/ \E k \in Keys : store.cacheTtl[k] > 0
     \/ \E t \in Tags : store.depsTtl[t] > 0
  /\ store' = redis_tick(store)
  /\ last' = Op("tick", "", TTL_NONE, 0, FALSE)
  /\ scen' = ScenTick(store)
  /\ live' = LiveTick
  /\ UNCHANGED lastSet

(***************************************************************************)
(* context.py: the operation stack                                         *)
(***************************************************************************)
\* the only manager of this program: RedisConfig().prefix
DefaultManager == "cache"
OtherManager == "other"
ManagerNames == {DefaultManager, OtherManager}

\* CacheOperation.  alias names the function whose dependencies= set object
\* is the frame's own dependency set ("" when the frame owns a fresh set)
Frame(manager_name, cache_key, cache_ttl, alias) ==
  [manager_name |-> manager_name, cache_key |-> cache_key, cache_ttl |-> cache_ttl,
   alias |-> alias, dependencies |-> [m \in ManagerNames |-> {}]]

\* the set stored in frame.dependencies[m], read through the alias
frame_deps(st, fr, m) ==
  IF fr.alias # "" /\ m = fr.manager_name THEN st[fr.alias] ELSE fr.dependencies[m]

\* _get_current_operation
HasCurrent(stack) == Len(stack) > 0
current_operation(stack) == stack[Len(stack)]

\* push_operation_context: "dependencies or set()" keeps the caller's set
\* object when it is non-empty
push_operation_context(stack, st, fn, manager_name, cache_key, cache_ttl) ==
  Append(stack, Frame(manager_name, cache_key, cache_ttl, IF st[fn] # {} THEN fn ELSE ""))

\* variant: the parent's sets are replaced by the popped frame's
pop_stack_overwrite(stack, st) ==
  IF ~HasCurrent(stack) THEN stack
  ELSE LET current_op == current_operation(stack)
           rest == SubSeq(stack, 1, Len(stack) - 1)
       IN IF Len(rest) = 0 THEN rest
          ELSE [rest EXCEPT ![Len(rest)].dependencies =
                  [m \in ManagerNames |-> frame_deps(st, current_op, m)]]

\* variant: the frame is left on the stack
pop_stack_skipped(stack, st) == stack

\* pop_operation_context: the stack after the pop, parent merged.  The merge
\* updates the parent's set objects in place
pop_stack(stack, st) ==
  IF ~HasCurrent(stack) THEN stack
  ELSE LET current_op == current_operation(stack)
           rest == SubSeq(stack, 1, Len(stack) - 1)
       IN IF Len(rest) = 0 THEN rest
          ELSE [rest EXCEPT ![Len(rest)].dependencies =
                  [m \in ManagerNames |->
                     IF rest[Len(rest)].alias # "" /\ m = rest[Len(rest)].manager_name
                       THEN @[m]
                       ELSE @[m] \cup frame_deps(st, current_op, m)]]
\* variant: the pop leaves the parent's set object as it was
pop_statics_unmerged(stack, st) == st

\* pop_operation_context: the decorators' set objects after the pop
pop_statics(stack, st) ==
  IF Len(stack) < 2 THEN st
  ELSE LET current_op == current_operation(stack)
           parent_op == stack[Len(stack) - 1]
       IN IF parent_op.alias # ""
            THEN [st EXCEPT ![parent_op.alias] = @ \cup frame_deps(st, current_op, parent_op.manager_name)]
            ELSE st

\* add_dependency(dependency) with no manager argument
add_dependency_stack(stack, st, dependency) ==
  IF ~HasCurrent(stack) THEN stack
  ELSE LET current_op == current_operation(stack)
       IN IF current_op.alias # "" THEN stack
          ELSE [stack EXCEPT ![Len(stack)].dependencies[current_op.manager_name] = @ \cup {dependency}]
add_dependency_statics(stack, st, dependency) ==
  IF ~HasCurrent(stack) THEN st
  ELSE LET current_op == current_operation(stack)
       IN IF current_op.alias # "" THEN [st EXCEPT ![current_op.alias] = @ \cup {dependency}]
          ELSE st

\* get_current_dependencies: "if not current_op or not
\* current_op.manager_name: return set()"
get_current_dependencies_any_manager(stack, st) ==
  IF ~HasCurrent(stack) THEN {}
  ELSE UNION {frame_deps(st, current_operation(stack), m) : m \in ManagerNames}

get_current_dependencies(stack, st) ==
  IF ~HasCurrent(stack) \/ current_operation(stack).manager_name = "" THEN {}
  ELSE frame_deps(st, current_operation(stack), current_operation(stack).manager_name)

\* variant: the TTL is written to every frame of the stack
set_cache_ttl_every_frame(stack, ttl) == [i \in 1..Len(stack) |-> [stack[i] EXCEPT !.cache_ttl = ttl]]

\* variant: the TTL is written to a copy of the frame and lost
set_cache_ttl_on_copy(stack, ttl) == stack

\* set_cache_ttl
set_cache_ttl(stack, ttl) ==
  IF ~HasCurrent(stack) THEN stack ELSE [stack EXCEPT ![Len(stack)].cache_ttl = ttl]

\* get_cache_ttl
get_cache_ttl(stack) ==
  IF ~HasCurrent(stack) THEN TTL_NONE ELSE current_operation(stack).cache_ttl

\* set_current_cache_key
set_current_cache_key(stack, key) ==
  IF ~HasCurrent(stack) THEN stack ELSE [stack EXCEPT ![Len(stack)].cache_key = key]

\* current_cache_key: None without a current operation
current_cache_key(stack) ==
  IF ~HasCurrent(stack) THEN "" ELSE current_operation(stack).cache_key

\* add_dependency(dependency, manager=manager); manager "" stands for None.
\* A frame pushed without a manager name and without dependencies keeps an
\* empty set under None, which nothing adds to
add_dependency_to_stack(stack, st, dependency, manager) ==
  IF ~HasCurrent(stack) THEN stack
  ELSE LET current_op == current_operation(stack)
           target_manager == IF manager # "" THEN manager ELSE current_op.manager_name
       IN IF target_manager = "" THEN stack
          ELSE IF current_op.alias # "" /\ target_manager = current_op.manager_name THEN stack
          ELSE [stack EXCEPT ![Len(stack)].dependencies[target_manager] = @ \cup {dependency}]
add_dependency_to_statics(stack, st, dependency, manager) ==
  IF ~HasCurrent(stack) THEN st
  ELSE LET current_op == current_operation(stack)
           target_manager == IF manager # "" THEN manager ELSE current_op.manager_name
       IN IF target_manager # "" /\ current_op.alias # "" /\ target_manager = current_op.manager_name
            THEN [st EXCEPT ![current_op.alias] = @ \cup {dependency}]
            ELSE st

\* get_all_dependencies: {} without a current operation
get_all_dependencies(stack, st) ==
  IF ~HasCurrent(stack) THEN [m \in ManagerNames |-> {}]
  ELSE [m \in ManagerNames |-> frame_deps(st, current_operation(stack), m)]

\* variant: nothing is returned on an empty stack
pop_return_none(stack, st) ==
  IF ~HasCurrent(stack) THEN PyNone ELSE get_all_dependencies(stack, st)

\* what pop_operation_context returns: {} on an empty stack, else the
\* dependencies dict of the popped operation
pop_return(stack, st) == get_all_dependencies(stack, st)

\* reset: _operation_stack.set(None)
reset(stack) == <<>>

\* a call of context.py, the value it returned (None: PyNone), and the depth
\* of the stack it was made on
\* arg: the manager= argument of an add_dependency call ("" for None)
CtxCall(op, ret, depth) == [op |-> op, ret |-> ret, depth |-> depth, arg |-> ""]
NoCtxCall == CtxCall("", PyNone, 0)

(***************************************************************************)
(* context.py under threads and asyncio tasks.  The ContextVar holds a     *)
(* list of CacheOperation objects; push and pop replace the list by a      *)
(* copy, the objects in it are shared by reference.  An asyncio task       *)
(* starts with a copy of its spawner's context, a thread with an empty one *)
(***************************************************************************)
\* CacheOperation objects created in one run
MaxFrames == 2

TaskIds == {"main", "t1", "t2"}
SpawnKinds == {"task", "thread"}
CtxKey == "key_c"
CtxTag == "x"
CtxTtl == MaxTTL

\* the list held by task t, its objects read from the heap
Deref(h, stack) == [i \in 1..Len(stack) |-> h[stack[i]]]

\* the heap after the objects of the list were updated in place to vs
Stored(h, stack, vs) ==
  [id \in 1..Len(h) |->
     IF \E i \in 1..Len(stack) : stack[i] = id
       THEN vs[CHOOSE i \in 1..Len(stack) : stack[i] = id]
       ELSE h[id]]

Alive(t) == tasks[t].alive
StackOf(t) == tasks[t].stack
SetStack(t, stack) == [tasks EXCEPT ![t].stack = stack]

\* what the context getters return in task t: get_current_dependencies,
\* get_cache_ttl, current_cache_key
View(t) ==
  LET stack == Deref(heap, StackOf(t))
  IN [deps |-> get_current_dependencies(stack, statics),
      ttl |-> get_cache_ttl(stack),
      key |-> current_cache_key(stack)]

\* task t calls push_operation_context(manager, key, manager_obj): a new object
CtxPush(t) ==
  /\ Alive(t) /\ Len(heap) < MaxFrames
  /\ LET vs == push_operation_context(Deref(heap, StackOf(t)), statics, "f",
                                      DefaultManager, FuncKey("f"), TTL_NONE)
     IN /\ heap' = Append(heap, vs[Len(vs)])
        /\ tasks' = SetStack(t, Append(StackOf(t), Len(heap) + 1))
  /\ actor' = t /\ UNCHANGED lastCtx

\* task t calls pop_operation_context: the parent object is updated in place
CtxPop(t) ==
  /\ Alive(t) /\ StackOf(t) # <<>>
  /\ LET rest == SubSeq(StackOf(t), 1, Len(StackOf(t)) - 1)
     IN /\ heap' = Stored(heap, rest, pop_stack(Deref(heap, StackOf(t)), statics))
        /\ tasks' = SetStack(t, rest)
  /\ actor' = t /\ UNCHANGED lastCtx

\* task t calls add_dependency
CtxAddDependency(t) ==
  /\ Alive(t)
  /\ heap' = Stored(heap, StackOf(t), add_dependency_stack(Deref(heap, StackOf(t)), statics, CtxTag))
  /\ actor' = t /\ UNCHANGED lastCtx
  /\ UNCHANGED tasks

\* task t calls set_cache_ttl
CtxSetCacheTtl(t) ==
  /\ Alive(t)
  /\ heap' = Stored(heap, StackOf(t), set_cache_ttl(Deref(heap, StackOf(t)), CtxTtl))
  /\ actor' = t /\ UNCHANGED lastCtx
  /\ UNCHANGED tasks

\* task t calls set_current_cache_key
CtxSetCurrentCacheKey(t) ==
  /\ Alive(t)
  /\ heap' = Stored(heap, StackOf(t), set_current_cache_key(Deref(heap, StackOf(t)), CtxKey))
  /\ actor' = t /\ UNCHANGED lastCtx
  /\ UNCHANGED tasks

\* task t starts child: asyncio.create_task copies the context, a new thread
\* starts with the ContextVar's default
CtxSpawn(t, child, kind) ==
  /\ Alive(t) /\ ~Alive(child)
  /\ tasks' = [tasks EXCEPT ![child] =
                 [alive |-> TRUE, parent |-> t,
                  stack |-> IF kind = "task" THEN StackOf(t) ELSE <<>>]]
  /\ actor' = t /\ UNCHANGED lastCtx
  /\ UNCHANGED heap

CtxInit ==
  /\ heap = <<>>
  /\ tasks = [t \in TaskIds |-> [alive |-> t = "main", parent |-> "", stack |-> <<>>]]
  /\ actor = "main"
  /\ lastCtx = NoCtxCall

(***************************************************************************)
(* manager.py: the registry of managers                                    *)
(***************************************************************************)
\* names under which callers ask for a manager; NoName is name=None
RegNames == {DefaultManager, "other"}
NoName == ""

\* configuration objects: EnvConfig is what RedisConfig() builds when the
\* caller passes config=None, the others are objects callers hold
EnvConfig == "env"
ConfigIds == {EnvConfig, "c1", "c2"}
NoConfig == ""

\* backend objects callers pass; NoBackend is backend=None
BackendIds == {"b1", "b2"}
NoBackend == ""

\* the prefix of each configuration object
ConfigPrefix(c) == IF c = "c2" THEN "other" ELSE DefaultManager

\* a registry slot without a manager, which is also the reply None
NoManager == [exists |-> FALSE, name |-> "", config |-> "", backend |-> "", built |-> FALSE]

\* create_cache_manager: the manager keeps the configuration and the backend
\* it was created with; without a backend argument one is built from the
\* configuration
create_cache_manager(name, config, backend) ==
  [exists |-> TRUE, name |-> name, config |-> config,
   backend |-> IF backend = NoBackend THEN config ELSE backend,
   built |-> backend = NoBackend]

\* variant: the configuration passed by the caller decides, also for a name
\* that is registered
get_or_create_cache_manager_honours_config(ms, cs, name, config, backend) ==
  LET c == IF config = NoConfig THEN EnvConfig ELSE config
      n == IF name = NoName THEN cs[c].prefix ELSE name
  IN IF ~cs[c].cache_enabled
       THEN [ret |-> NoManager, managers |-> ms, warned |-> TRUE, built |-> FALSE, name |-> n]
       ELSE IF ms[n].exists
         THEN [ret |-> ms[n], managers |-> ms, warned |-> FALSE, built |-> FALSE, name |-> n]
         ELSE LET m == create_cache_manager(n, c, backend)
              IN [ret |-> m, managers |-> [ms EXCEPT ![n] = m], warned |-> FALSE,
                  built |-> m.built, name |-> n]

\* variant: the manager is created and registered before the configuration
\* is looked at
get_or_create_cache_manager_creates_first(ms, cs, name, config, backend) ==
  LET c0 == IF config = NoConfig THEN EnvConfig ELSE config
      n == IF name = NoName THEN cs[c0].prefix ELSE name
      m == IF ms[n].exists THEN ms[n] ELSE create_cache_manager(n, c0, backend)
      after == [ms EXCEPT ![n] = m]
  IN IF ~cs[m.config].cache_enabled
       THEN [ret |-> NoManager, managers |-> after, warned |-> TRUE,
             built |-> ~ms[n].exists /\ m.built, name |-> n]
       ELSE [ret |-> m, managers |-> after, warned |-> FALSE,
             built |-> ~ms[n].exists /\ m.built, name |-> n]

\* get_or_create_cache_manager(name, config, backend): what it returns, the
\* registry afterwards, whether it warned, whether it built a backend
get_or_create_cache_manager(ms, cs, name, config, backend) ==
  LET c0 == IF config = NoConfig THEN EnvConfig ELSE config
      n == IF name = NoName THEN cs[c0].prefix ELSE name
      manager == ms[n]
      c == IF manager.exists THEN manager.config ELSE c0
  IN IF ~cs[c].cache_enabled
       THEN [ret |-> NoManager, managers |-> ms, warned |-> TRUE, built |-> FALSE, name |-> n]
       ELSE IF manager.exists
         THEN [ret |-> manager, managers |-> ms, warned |-> FALSE, built |-> FALSE, name |-> n]
         ELSE LET m == create_cache_manager(n, c, backend)
              IN [ret |-> m, managers |-> [ms EXCEPT ![n] = m], warned |-> FALSE,
                  built |-> m.built, name |-> n]

\* the record of a call: its arguments, the registry slot before it, its reply
GetRecord(name, config, backend, before, reply) ==
  [called |-> TRUE, name |-> reply.name, config |-> config, backend |-> backend,
   before |-> before, ret |-> reply.ret, warned |-> reply.warned, built |-> reply.built]
NoGet ==
  [called |-> FALSE, name |-> "", config |-> "", backend |-> "",
   before |-> NoManager, ret |-> NoManager, warned |-> FALSE, built |-> FALSE]

\* a client asks the registry for a manager
GetOrCreate(name, config, backend) ==
  LET reply == get_or_create_cache_manager(managers, configs, name, config, backend)
  IN /\ managers' = reply.managers
     /\ lastGet' = GetRecord(name, config, backend, managers[reply.name], reply)
     /\ UNCHANGED configs

\* config.cache_enabled = value, or DEP_CACHE_ENABLED changing for an object
\* that reads it from the environment
SetCacheEnabled(c, value) ==
  /\ configs[c].cache_enabled # value
  /\ configs' = [configs EXCEPT ![c].cache_enabled = value]
  /\ lastGet' = NoGet
  /\ UNCHANGED managers

\* no manager yet; every configuration object as its owner made it
RegInit ==
  /\ managers = [n \in RegNames |-> NoManager]
  /\ \E enabled \in [ConfigIds -> BOOLEAN] :
       configs = [c \in ConfigIds |-> [prefix |-> ConfigPrefix(c), cache_enabled |-> enabled[c]]]
  /\ lastGet = NoGet

\* the default manager was created from the environment, caching enabled
RegReady ==
  /\ managers = [n \in RegNames |->
                   IF n = DefaultManager THEN create_cache_manager(n, EnvConfig, NoBackend)
                   ELSE NoManager]
  /\ configs = [c \in ConfigIds |-> [prefix |-> ConfigPrefix(c), cache_enabled |-> TRUE]]
  /\ lastGet = NoGet

(***************************************************************************)
(* The decorated program under test                                        *)
(*   o  @cache_with_deps(dependencies={"o"}): calls i(), returns            *)
(*   i  @cache_with_deps(dependencies={"i"}): returns                       *)
(*   f  @cache_with_deps(ttl=cfg.ttl, cache_exception_types=cfg.excTypes): *)
(*      [set_cache_ttl(cfg.dyn)]; add_dependency("x"); return or raise     *)
(***************************************************************************)
\* f's body makes no set_cache_ttl call
NoCall == TTL_NONE - 1

\* the values Python takes for false: 0, False, "", []
Falsy == {Val("int", "0"), Val("bool", "False"), Val("str", ""), Val("list", "")}

Returns == {PyNone, Val("int", "0"), Val("str", "s"), Val("tuple", "1,2"), Val("list", "1,2")}
Raises == {ExcVal(c, "boom") : c \in {"ValueError", "LocalValueError", "TypeError", "KeyboardInterrupt"}}

\* cache_exception_types: None, [], or a list of classes
ExcTypeLists ==
  {[none |-> TRUE, types |-> {}], [none |-> FALSE, types |-> {}],
   [none |-> FALSE, types |-> {"ValueError"}], [none |-> FALSE, types |-> {"TypeError"}]}

Outcome(raise, val) == [raise |-> raise, val |-> val]
NoOutcome == Outcome(FALSE, Val("nothing", ""))

NoExcTypes == [none |-> TRUE, types |-> {}]

\* the nested pair; f over its return values; f over its TTL settings; f over
\* the exceptions it raises and the exception types its decorator lists
\* no callback=, silent_backend_errors left at False, a backend that works
Programs ==
  {[funcs |-> {"o", "i"}, ttl |-> TTL_NONE, dyn |-> NoCall,
    excTypes |-> NoExcTypes, outcome |-> Outcome(FALSE, Val("str", "s")),
    silent |-> FALSE, cb |-> "none", faulty |-> FALSE, inner |-> NoName, outerTtl |-> NoCall, cross |-> NoName, catches |-> FALSE]}
  \cup
  [funcs : {{"f"}}, ttl : {TTL_NONE, MaxTTL}, dyn : {NoCall},
   excTypes : {NoExcTypes}, outcome : {Outcome(FALSE, v) : v \in Returns},
   silent : {FALSE}, cb : {"none"}, faulty : {FALSE}, inner : {NoName}, outerTtl : {NoCall}, cross : {NoName}, catches : {FALSE}]
  \cup
  [funcs : {{"f"}}, ttl : {TTL_NONE} \cup (1..MaxTTL), dyn : {NoCall} \cup TtlArgs,
   excTypes : {NoExcTypes}, outcome : {Outcome(FALSE, Val("str", "s"))},
   silent : {FALSE}, cb : {"none"}, faulty : {FALSE}, inner : {NoName}, outerTtl : {NoCall}, cross : {NoName}, catches : {FALSE}]
  \cup
  [funcs : {{"f"}}, ttl : {TTL_NONE}, dyn : {NoCall},
   excTypes : ExcTypeLists, outcome : {Outcome(TRUE, e) : e \in Raises},
   silent : {FALSE}, cb : {"none"}, faulty : {FALSE}, inner : {NoName}, outerTtl : {NoCall}, cross : {NoName}, catches : {FALSE}]

\* the callback= of the decorator: none, a sync callable, a sync callable that
\* raises an Exception, one that raises KeyboardInterrupt, an async callable
Callbacks == {"none", "sync", "raises", "interrupts", "async"}

\* programs run against a backend that may fail, with and without
\* silent_backend_errors, and with the four callbacks
FaultPrograms ==
  [funcs : {{"f"}}, ttl : {TTL_NONE}, dyn : {NoCall},
   excTypes : {[none |-> FALSE, types |-> {"ValueError"}]},
   outcome : {Outcome(FALSE, Val("str", "s")), Outcome(TRUE, ExcVal("ValueError", "boom"))},
   silent : BOOLEAN, cb : {"sync"}, faulty : {TRUE}, inner : {NoName}, outerTtl : {NoCall}, cross : {NoName}, catches : {FALSE}]
  \cup
  [funcs : {{"f"}}, ttl : {TTL_NONE}, dyn : {NoCall},
   excTypes : {NoExcTypes, [none |-> FALSE, types |-> {"ValueError"}]},
   outcome : {Outcome(FALSE, Val("str", "s")), Outcome(TRUE, ExcVal("ValueError", "boom"))},
   silent : {FALSE}, cb : Callbacks, faulty : {FALSE}, inner : {NoName}, outerTtl : {NoCall}, cross : {NoName}, catches : {FALSE}]

\* the nested pair with and without name="other" on i's decorator
NestPrograms ==
  [funcs : {{"o", "i"}}, ttl : {TTL_NONE}, dyn : {NoCall},
   excTypes : {NoExcTypes}, outcome : {Outcome(FALSE, Val("str", "s"))},
   silent : {FALSE}, cb : {"none"}, faulty : {FALSE}, inner : {NoName, OtherManager}, outerTtl : {NoCall}, cross : {NoName}, catches : {FALSE}]

\* the nested pair where i's body calls add_dependency("x", manager=cross),
\* with and without name="other" on i's decorator
CrossPrograms ==
  [funcs : {{"o", "i"}}, ttl : {TTL_NONE}, dyn : {NoCall},
   excTypes : {NoExcTypes}, outcome : {Outcome(FALSE, Val("str", "s"))},
   silent : {FALSE}, cb : {"none"}, faulty : {FALSE}, inner : {NoName, OtherManager},
   outerTtl : {NoCall}, cross : ManagerNames, catches : {FALSE}]

\* the nested pair where o catches what i raises: i returns a value or raises
\* a ValueError its decorator does not cache, and the backend may fail with
\* silent_backend_errors=True
CatchPrograms ==
  [funcs : {{"o", "i"}}, ttl : {TTL_NONE}, dyn : {NoCall},
   excTypes : {NoExcTypes},
   outcome : {Outcome(FALSE, Val("str", "s")), Outcome(TRUE, ExcVal("ValueError", "boom"))},
   silent : {TRUE}, cb : {"none"}, faulty : {TRUE}, inner : {NoName},
   outerTtl : {NoCall}, cross : {NoName}, catches : {TRUE}]

\* the nested pair with TTLs: ttl is the ttl= of i's decorator, dyn the TTL
\* i's body sets, outerTtl the TTL o's body sets before it calls i
TtlPrograms ==
  [funcs : {{"o", "i"}}, ttl : {TTL_NONE, 1}, dyn : {NoCall, TTL_NONE, 1},
   excTypes : {NoExcTypes}, outcome : {Outcome(FALSE, Val("str", "s"))},
   silent : {FALSE}, cb : {"none"}, faulty : {FALSE}, inner : {NoName},
   outerTtl : {NoCall, MaxTTL}, cross : {NoName}, catches : {FALSE}]

\* one function returning a falsy value, a string or None, or raising a
\* ValueError that the decorator does or does not cache
ValPrograms ==
  [funcs : {{"f"}}, ttl : {TTL_NONE}, dyn : {NoCall},
   excTypes : {NoExcTypes, [none |-> FALSE, types |-> {"ValueError"}]},
   outcome : {Outcome(FALSE, v) : v \in Falsy \cup {PyNone, Val("str", "s")}}
               \cup {Outcome(TRUE, ExcVal("ValueError", "boom"))},
   silent : {FALSE}, cb : {"none"}, faulty : {FALSE}, inner : {NoName}, outerTtl : {NoCall}, cross : {NoName}, catches : {FALSE}]

\* the keys and tags the program's functions use
ProgKeys(c) == {FuncKey(fn) : fn \in c.funcs}
ProgTags(c) ==
  IF "f" \in c.funcs THEN {"x"}
  ELSE {"o", "i"} \cup (IF c.cross # NoName THEN {"x"} ELSE {})

\* the decorator arguments of each function
DecoratorTtl(c, fn) == IF fn \in {"f", "i"} THEN c.ttl ELSE TTL_NONE
DecoratorDeps(fn) == IF fn = "o" THEN {"o"} ELSE IF fn = "i" THEN {"i"} ELSE {}
DecoratorExcTypes(c, fn) == IF fn = "f" THEN c.excTypes ELSE NoExcTypes
DecoratorName(c, fn) == IF fn = "i" THEN c.inner ELSE NoName

Instr(op, fn, tag, ttl, out) ==
  [op |-> op, fn |-> fn, tag |-> tag, ttl |-> ttl, out |-> out, manager |-> ""]
\* add_dependency(tag, manager=manager)
InstrAdd(tag, manager) ==
  [Instr("add_dependency", "", tag, TTL_NONE, NoOutcome) EXCEPT !.manager = manager]
Body(c, fn) ==
  IF fn = "o" THEN (IF c.outerTtl # NoCall
                      THEN <<Instr("set_cache_ttl", "", "", c.outerTtl, NoOutcome)>> ELSE <<>>)
                   \o <<Instr(IF c.catches THEN "try_call" ELSE "call", "i", "", TTL_NONE, NoOutcome),
                        Instr("end", "", "", TTL_NONE, Outcome(FALSE, Val("str", "o")))>>
  ELSE IF fn = "i" THEN (IF c.dyn # NoCall
                           THEN <<Instr("set_cache_ttl", "", "", c.dyn, NoOutcome)>> ELSE <<>>)
                        \o (IF c.cross # NoName THEN <<InstrAdd("x", c.cross)>> ELSE <<>>)
                        \o <<Instr("end", "", "", TTL_NONE,
                                    IF c.catches THEN c.outcome ELSE Outcome(FALSE, Val("str", "i")))>>
  ELSE (IF c.dyn # NoCall THEN <<Instr("set_cache_ttl", "", "", c.dyn, NoOutcome)>> ELSE <<>>)
       \o <<Instr("add_dependency", "", "x", TTL_NONE, NoOutcome),
            Instr("end", "", "", TTL_NONE, c.outcome)>>

(***************************************************************************)
(* decorators.py                                                           *)
(***************************************************************************)
\* _generate_cache_key for the one argument tuple each function is called with
generate_cache_key(fn) == FuncKey(fn)

\* variant: a cached exception is returned like any other value
handle_cache_hit_returns(cached_result) == Outcome(FALSE, cached_result)

\* _handle_cache_hit: a cached exception is raised, any other value returned
handle_cache_hit(cached_result) ==
  Outcome(cached_result.kind = "exc", cached_result)

\* variant: "if cached_result", which takes the falsy values for a miss too
is_hit_if_truthy(cached_result) == cached_result.kind # "none" /\ cached_result \notin Falsy

\* variant: a value found under the key is not taken for a hit
is_hit_never(cached_result) == FALSE

\* "if cached_result is not None"
is_hit(cached_result) == cached_result.kind # "none"

\* _should_cache_exception
should_cache_exception(exc, cache_exception_types) ==
  /\ ~cache_exception_types.none
  /\ cache_exception_types.types # {}
  /\ \E exc_type \in cache_exception_types.types : isinstance(exc, exc_type)

\* "except Exception as exc" catches the exception
caught(exc) == isinstance(exc, "Exception")

\* the error a failing Redis command raises
BackendError == ExcVal("ConnectionError", "backend")
\* what a failing observer callback raises: an Exception, or an exception
\* that is not an Exception
CallbackError == ExcVal("RuntimeError", "callback")
CallbackInterrupt == ExcVal("KeyboardInterrupt", "callback")

\* whether the backend call of this step fails, and at which Redis command a
\* failing set stops: SET / SETEX, or the first SADD after the value is written
GetFaults(c) == IF c.faulty THEN BOOLEAN ELSE {FALSE}
SetFaults(c, dependencies) ==
  {"none"} \cup (IF c.faulty THEN {"set"} \cup (IF dependencies # {} THEN {"sadd"} ELSE {}) ELSE {})

\* RedisCacheBackend.set interrupted by a failing command
backend_set_failing(r, k, value, ttl, dependencies, at) ==
  IF at = "set" THEN r
  ELSE IF Truthy(ttl) THEN redis_setex(r, k, ttl, dump(value)) ELSE redis_set(r, k, dump(value))

\* variant: the error is raised whatever silent_backend_errors says
safe_backend_op_raises(failed, silent) ==
  IF failed THEN "raise" ELSE "ok"

\* _safe_backend_op / _handle_backend_error: the operation's result is used, or
\* its error is logged and None used instead, or its error is raised again
safe_backend_op(failed, silent) ==
  IF ~failed THEN "ok" ELSE IF silent THEN "none" ELSE "raise"

\* variant: caching is taken to be enabled whatever the registry returns
runs_direct_never(active_cache_manager) == FALSE

\* "if active_cache_manager is None: return func(*args, **kwargs)"
runs_direct(active_cache_manager) == ~active_cache_manager.exists

\* _validate_callback_compatibility for a sync function: an async callback
\* is ignored with a warning
valid_callback(cb) == cb \in {"sync", "raises", "interrupts"}

\* the exception the callback raises when it is called, None if it returns
CallbackRaises(cb) ==
  CASE cb = "raises" -> CallbackError
    [] cb = "interrupts" -> CallbackInterrupt
    [] OTHER -> PyNone

CbCall(hit, cached_result) == [is_hit |-> hit, cached_result |-> cached_result]

\* "if valid_callback: try: valid_callback(...) except Exception as e:
\* _handle_callback_error(e, ...)": the calls made, and the exception that
\* leaves the block
invoke_callback(cb, hit, cached_result) ==
  [calls |-> IF valid_callback(cb) THEN <<CbCall(hit, cached_result)>> ELSE <<>>,
   raised |-> IF CallbackRaises(cb) = PyNone \/ caught(CallbackRaises(cb)) THEN PyNone
              ELSE CallbackRaises(cb)]

\* callers call while fewer than MaxLeaked frames are on their operation stack
MaxLeaked == 1

\* one wrapper invocation
\*   pc        lookup, body, persist, notify, cleanup, return
\*   ip        the next instruction of the function body
\*   result, exception  the wrapper's locals of the same names
\*   raised    an exception the wrapper does not catch, on its way out
\*   direct    the registry returned no manager: the function is called directly
\*   depth, topkey  the operation stack when the wrapper was entered
\*   cbs       the calls of the observer callback made by this invocation
\*   runs      how often the function body ran to its end
\*   getFailed, setFailed, wrote  what happened to the backend calls
Activation(fn) ==
  [fn |-> fn, pc |-> "lookup", ip |-> 1, result |-> PyNone, exception |-> PyNone,
   raised |-> PyNone, hit |-> NoOutcome, executed |-> FALSE, intact |-> FALSE, inval |-> {},
   direct |-> FALSE, depth |-> Len(opstack), topkey |-> current_cache_key(opstack),
   topttl |-> get_cache_ttl(opstack),
   cbs |-> <<>>, runs |-> 0, getFailed |-> FALSE, setFailed |-> FALSE, wrote |-> FALSE]

\* no invocation has finished yet
NoActivation ==
  [fn |-> "", pc |-> "", ip |-> 1, result |-> PyNone, exception |-> PyNone,
   raised |-> PyNone, hit |-> NoOutcome, executed |-> FALSE, intact |-> FALSE, inval |-> {},
   direct |-> FALSE, depth |-> 0, topkey |-> "", topttl |-> TTL_NONE,
   cbs |-> <<>>, runs |-> 0, getFailed |-> FALSE, setFailed |-> FALSE, wrote |-> FALSE]

Top == calls[Len(calls)]
Running(pc) == Len(calls) > 0 /\ Top.pc = pc
SetTop(a) == [calls EXCEPT ![Len(calls)] = a]
CurInstr == Body(cfg, Top.fn)[Top.ip]

WrapperStep == Op("wrapper", "", TTL_NONE, 0, FALSE)

\* a caller invokes one of the decorated functions of the program
Call ==
  /\ calls = <<>>
  /\ Len(opstack) < MaxLeaked
  /\ \E fn \in cfg.funcs : calls' = <<Activation(fn)>>
  /\ last' = WrapperStep
  /\ UNCHANGED <<store, lastSet, scen, live, cfg, statics, opstack, intact, prev, invalO, lastCall>>
  /\ UNCHANGED <<ctxVars, regVars, raceVars, keyVars, excVars, thrVars>>

\* sync_wrapper up to the push: manager, key, lookup, then hit or miss
Lookup ==
  /\ Running("lookup")
  /\ LET fn == Top.fn
         name == DecoratorName(cfg, fn)
         reply == get_or_create_cache_manager(managers, configs, name, NoConfig, NoBackend)
         cache_key == generate_cache_key(fn)
         seen == [Top EXCEPT !.intact = intact[fn], !.inval = IF fn = "o" THEN invalO ELSE {}]
     IN /\ managers' = reply.managers
        /\ lastGet' = GetRecord(name, NoConfig, NoBackend, managers[reply.name], reply)
        /\ IF runs_direct(reply.ret)
             THEN /\ calls' = SetTop([Top EXCEPT !.pc = "body", !.direct = TRUE, !.executed = TRUE])
                  /\ UNCHANGED <<opstack, invalO>>
             ELSE \E failed \in GetFaults(cfg) :
                    LET op == safe_backend_op(failed, cfg.silent)
                        cached_result == IF op = "ok" THEN backend_get(store, cache_key) ELSE PyNone
                        got == [seen EXCEPT !.getFailed = failed]
                        hit == handle_cache_hit(cached_result)
                        cb == IF hit.raise THEN [calls |-> <<>>, raised |-> PyNone]
                              ELSE invoke_callback(cfg.cb, TRUE, cached_result)
                    IN /\ IF op = "raise"
                            THEN /\ calls' = SetTop([got EXCEPT !.pc = "return", !.raised = BackendError])
                                 /\ opstack' = opstack
                            ELSE IF is_hit(cached_result)
                              THEN /\ calls' = SetTop([got EXCEPT !.pc = "return", !.hit = hit,
                                                                   !.cbs = @ \o cb.calls,
                                                                   !.raised = cb.raised])
                                   /\ opstack' = opstack
                              ELSE /\ calls' = SetTop([got EXCEPT !.pc = "body", !.executed = TRUE])
                                   /\ opstack' = push_operation_context(opstack, statics, fn, reply.ret.name,
                                                                        cache_key, DecoratorTtl(cfg, fn))
                       /\ invalO' = IF fn = "o" THEN {} ELSE invalO
  /\ last' = WrapperStep
  /\ UNCHANGED <<store, lastSet, scen, live, cfg, statics, intact, prev, lastCall>>
  /\ UNCHANGED <<ctxVars, configs, raceVars, keyVars, excVars, thrVars>>

\* the body calls set_cache_ttl
BodySetCacheTtl ==
  /\ Running("body") /\ CurInstr.op = "set_cache_ttl"
  /\ opstack' = set_cache_ttl(opstack, CurInstr.ttl)
  /\ calls' = SetTop([Top EXCEPT !.ip = @ + 1])
  /\ last' = WrapperStep
  /\ UNCHANGED <<store, lastSet, scen, live, cfg, statics, intact, prev, invalO, lastCall>>
  /\ UNCHANGED <<ctxVars, regVars, raceVars, keyVars, excVars, thrVars>>

\* the body calls add_dependency
BodyAddDependency ==
  /\ Running("body") /\ CurInstr.op = "add_dependency"
  /\ opstack' = add_dependency_to_stack(opstack, statics, CurInstr.tag, CurInstr.manager)
  /\ statics' = add_dependency_to_statics(opstack, statics, CurInstr.tag, CurInstr.manager)
  /\ calls' = SetTop([Top EXCEPT !.ip = @ + 1])
  /\ last' = WrapperStep
  /\ UNCHANGED <<store, lastSet, scen, live, cfg, intact, prev, invalO, lastCall>>
  /\ UNCHANGED <<ctxVars, regVars, raceVars, keyVars, excVars, thrVars>>

\* the body calls another decorated function
BodyCall ==
  /\ Running("body") /\ CurInstr.op \in {"call", "try_call"}
  /\ calls' = Append(calls, Activation(CurInstr.fn))
  /\ last' = WrapperStep
  /\ UNCHANGED <<store, lastSet, scen, live, cfg, statics, opstack, intact, prev, invalO, lastCall>>
  /\ UNCHANGED <<ctxVars, regVars, raceVars, keyVars, excVars, thrVars>>

\* an exception leaves the function body: "try: result = func(...) except
\* Exception as exc" catches it or lets it through; a function called
\* directly has no handler around it
Thrown(a, exc) ==
  IF a.direct THEN [a EXCEPT !.pc = "return", !.raised = exc]
  ELSE IF caught(exc) THEN [a EXCEPT !.pc = "persist", !.exception = exc]
  ELSE [a EXCEPT !.pc = "persist", !.raised = exc]

\* the body returns or raises
BodyEnd ==
  /\ Running("body") /\ CurInstr.op = "end"
  /\ LET out == CurInstr.out
         ran == [Top EXCEPT !.runs = @ + 1]
     IN calls' = SetTop(
          IF out.raise THEN Thrown(ran, out.val)
          ELSE [ran EXCEPT !.pc = IF ran.direct THEN "return" ELSE "persist", !.result = out.val])
  /\ last' = WrapperStep
  /\ UNCHANGED <<store, lastSet, scen, live, cfg, statics, opstack, intact, prev, invalO, lastCall>>
  /\ UNCHANGED <<ctxVars, regVars, raceVars, keyVars, excVars, thrVars>>

\* finally: read the frame, _cache_result_or_exception_sync under
\* _safe_backend_op
Persist ==
  /\ Running("persist")
  /\ LET fn == Top.fn
         cache_key == generate_cache_key(fn)
         current_deps == get_current_dependencies(opstack, statics)
         effective_ttl == get_cache_ttl(opstack)
         writes == Top.exception = PyNone
                     \/ should_cache_exception(Top.exception, DecoratorExcTypes(cfg, fn))
         value == IF Top.exception = PyNone THEN Top.result ELSE Top.exception
     IN IF ~writes
          THEN /\ last' = Op("skip", "", TTL_NONE, 0, FALSE)
               /\ intact' = [intact EXCEPT ![fn] = TRUE]
               /\ calls' = SetTop([Top EXCEPT !.pc = "notify"])
               /\ UNCHANGED <<store, lastSet, scen, live>>
          ELSE \E at \in SetFaults(cfg, current_deps) :
                 IF at = "none"
                   THEN /\ ManagerSet(cache_key, value, effective_ttl, current_deps)
                        /\ intact' = [intact EXCEPT ![fn] = TRUE]
                        /\ calls' = SetTop([Top EXCEPT !.pc = "notify", !.wrote = TRUE])
                   ELSE /\ store' = backend_set_failing(store, cache_key, value, effective_ttl,
                                                        current_deps, at)
                        /\ last' = Op("set_failed", cache_key, effective_ttl, 0, FALSE)
                        /\ scen' = ScenDelete({cache_key})
                        /\ live' = IF at = "set" THEN live
                                   ELSE LiveSet(cache_key, value, effective_ttl)
                        /\ intact' = [intact EXCEPT ![fn] = FALSE]
                        /\ calls' = SetTop(
                             IF safe_backend_op(TRUE, cfg.silent) = "raise"
                               THEN [Top EXCEPT !.pc = "return", !.setFailed = TRUE, !.raised = BackendError]
                               ELSE [Top EXCEPT !.pc = "notify", !.setFailed = TRUE])
                        /\ UNCHANGED lastSet
  /\ UNCHANGED <<cfg, statics, opstack, prev, invalO, lastCall>>
  /\ UNCHANGED <<ctxVars, regVars, raceVars, keyVars, excVars, thrVars>>

\* finally: the callback for a miss
Notify ==
  /\ Running("notify")
  /\ LET cb == invoke_callback(cfg.cb, FALSE, PyNone)
     IN calls' = SetTop(
          IF cb.raised = PyNone THEN [Top EXCEPT !.pc = "cleanup", !.cbs = @ \o cb.calls]
          ELSE [Top EXCEPT !.pc = "return", !.cbs = @ \o cb.calls, !.raised = cb.raised])
  /\ last' = WrapperStep
  /\ UNCHANGED <<store, lastSet, scen, live, cfg, statics, opstack, intact, prev, invalO, lastCall>>
  /\ UNCHANGED <<ctxVars, regVars, raceVars, keyVars, excVars, thrVars>>

\* finally: _restore_context
Cleanup ==
  /\ Running("cleanup")
  /\ opstack' = pop_stack(opstack, statics)
  /\ statics' = pop_statics(opstack, statics)
  /\ calls' = SetTop([Top EXCEPT !.pc = "return"])
  /\ last' = WrapperStep
  /\ UNCHANGED <<store, lastSet, scen, live, cfg, intact, prev, invalO, lastCall>>
  /\ UNCHANGED <<ctxVars, regVars, raceVars, keyVars, excVars, thrVars>>

\* what the wrapper hands to its caller
WrapperOutcome(a) ==
  IF a.raised # PyNone THEN Outcome(TRUE, a.raised)
  ELSE IF a.hit # NoOutcome THEN a.hit
  ELSE IF a.exception # PyNone THEN Outcome(TRUE, a.exception)
  ELSE Outcome(FALSE, a.result)

\* the wrapper returns or raises; a calling body goes on, or is left by the
\* exception
Return ==
  /\ Running("return")
  /\ LET a == Top
         out == WrapperOutcome(a)
         rest == SubSeq(calls, 1, Len(calls) - 1)
     IN /\ lastCall' = [fn |-> a.fn, executed |-> a.executed, out |-> out, prev |-> prev[a.fn],
                        intact |-> a.intact, inval |-> a.inval, act |-> a,
                        depth_after |-> Len(opstack), topkey_after |-> current_cache_key(opstack)]
        /\ prev' = [prev EXCEPT ![a.fn] = out]
        /\ calls' = IF Len(rest) = 0 THEN rest
                    ELSE LET c == rest[Len(rest)]
                         IN [rest EXCEPT ![Len(rest)] =
                               IF out.raise /\ Body(cfg, c.fn)[c.ip].op # "try_call"
                                 THEN Thrown(c, out.val) ELSE [c EXCEPT !.ip = @ + 1]]
  /\ last' = WrapperStep
  /\ UNCHANGED <<store, lastSet, scen, live, cfg, statics, opstack, intact, invalO>>
  /\ UNCHANGED <<ctxVars, regVars, raceVars, keyVars, excVars, thrVars>>

(***************************************************************************)
(* Other clients of the same manager, and time, while calls run            *)
(***************************************************************************)
OCached == redis_exists(store, FuncKey("o"))
NoneIntact == [fn \in FuncNames |-> FALSE]

EnvInvalidate ==
  /\ \E tag \in ProgTags(cfg) :
       /\ ManagerInvalidate(tag)
       /\ invalO' = IF OCached THEN invalO \cup {tag} ELSE invalO
  /\ intact' = NoneIntact
  /\ UNCHANGED <<cfg, statics, opstack, calls, prev, lastCall>>
  /\ UNCHANGED <<ctxVars, regVars, raceVars, keyVars, excVars, thrVars>>

EnvDelete ==
  /\ \E k \in ProgKeys(cfg) : ManagerDelete(k)
  /\ intact' = NoneIntact
  /\ UNCHANGED <<cfg, statics, opstack, calls, prev, invalO, lastCall>>
  /\ UNCHANGED <<ctxVars, regVars, raceVars, keyVars, excVars, thrVars>>

EnvClear ==
  /\ ManagerClear
  /\ intact' = NoneIntact
  /\ UNCHANGED <<cfg, statics, opstack, calls, prev, invalO, lastCall>>
  /\ UNCHANGED <<ctxVars, regVars, raceVars, keyVars, excVars, thrVars>>

EnvTick ==
  /\ Tick
  /\ intact' = [fn \in FuncNames |-> intact[fn] /\ FuncKey(fn) \notin ExpiringKeys(store)]
  /\ UNCHANGED <<cfg, statics, opstack, calls, prev, invalO, lastCall>>
  /\ UNCHANGED <<ctxVars, regVars, raceVars, keyVars, excVars, thrVars>>

(***************************************************************************)
(* Specifications                                                          *)
(***************************************************************************)
StoreGhostInit ==
  /\ store = EmptyStore
  /\ last = NoLast
  /\ lastSet = [k \in Keys |-> NeverSet]
  /\ scen = [t \in Tags |-> Fresh]
  /\ live = [k \in Keys |-> NoEntry]

DecoInit(c) ==
  /\ cfg = c
  /\ statics = [fn \in FuncNames |-> DecoratorDeps(fn)]
  /\ opstack = <<>>
  /\ calls = <<>>
  /\ intact = NoneIntact
  /\ prev = [fn \in FuncNames |-> NoOutcome]
  /\ invalO = {}
  /\ lastCall = [fn |-> "", executed |-> FALSE, out |-> NoOutcome, prev |-> NoOutcome,
                 intact |-> FALSE, inval |-> {}, act |-> NoActivation,
                 depth_after |-> 0, topkey_after |-> ""]

Init ==
  /\ StoreGhostInit
  /\ \E c \in Programs : DecoInit(c)
  /\ CtxInit
  /\ RaceIdle /\ KeyIdle /\ ExcIdle /\ ThrIdle
  /\ RegReady

Next ==
  \/ Call
  \/ Lookup
  \/ BodySetCacheTtl
  \/ BodyAddDependency
  \/ BodyCall
  \/ BodyEnd
  \/ Persist
  \/ Notify
  \/ Cleanup
  \/ Return
  \/ EnvInvalidate
  \/ EnvDelete
  \/ EnvClear
  \/ EnvTick

Spec == Init /\ [][Next]_vars

\* manager-level use of the store: no decorated call is made
PyValues == {Val("str", "v1")}
ManualTtls == {TTL_NONE} \cup (1..MaxTTL)

StoreInit ==
  /\ StoreGhostInit
  /\ DecoInit(CHOOSE c \in Programs : c.funcs = {"o", "i"})
  /\ CtxInit
  /\ RaceIdle /\ KeyIdle /\ ExcIdle /\ ThrIdle
  /\ RegReady

StoreSetAction ==
  /\ \E k \in ManualKeys, value \in PyValues, ttl \in ManualTtls, dependencies \in SUBSET ManualTags :
       ManagerSet(k, value, ttl, dependencies)
  /\ UNCHANGED <<decoVars, ctxVars, regVars, raceVars, keyVars, excVars, thrVars>>

StoreDeleteAction ==
  /\ \E k \in ManualKeys : ManagerDelete(k)
  /\ UNCHANGED <<decoVars, ctxVars, regVars, raceVars, keyVars, excVars, thrVars>>

StoreClearAction ==
  /\ ManagerClear
  /\ UNCHANGED <<decoVars, ctxVars, regVars, raceVars, keyVars, excVars, thrVars>>

StoreInvalidateAction ==
  /\ \E tag \in ManualTags : ManagerInvalidate(tag)
  /\ UNCHANGED <<decoVars, ctxVars, regVars, raceVars, keyVars, excVars, thrVars>>

StoreTickAction ==
  /\ Tick
  /\ UNCHANGED <<decoVars, ctxVars, regVars, raceVars, keyVars, excVars, thrVars>>

StoreNext ==
  \/ StoreSetAction
  \/ StoreDeleteAction
  \/ StoreClearAction
  \/ StoreInvalidateAction
  \/ StoreTickAction

StoreSpec == StoreInit /\ [][StoreNext]_vars

\* executions made of sets and the passage of time only
SetsNext ==
  \/ StoreSetAction
  \/ StoreTickAction

SetsSpec == StoreInit /\ [][SetsNext]_vars

\* threads and tasks calling context.py directly
\* clients of the manager writing two different values
EntryValues == {Val("str", "v1"), Val("str", "v2")}
EntryTags == {"A"}

EntrySetAction ==
  /\ \E k \in ManualKeys, value \in EntryValues, ttl \in ManualTtls, dependencies \in SUBSET EntryTags :
       ManagerSet(k, value, ttl, dependencies)
  /\ UNCHANGED <<decoVars, ctxVars, regVars, raceVars, keyVars, excVars, thrVars>>

EntryInvalidateAction ==
  /\ \E tag \in EntryTags : ManagerInvalidate(tag)
  /\ UNCHANGED <<decoVars, ctxVars, regVars, raceVars, keyVars, excVars, thrVars>>

EntryNext ==
  \/ EntrySetAction
  \/ StoreDeleteAction
  \/ StoreClearAction
  \/ EntryInvalidateAction
  \/ StoreTickAction

EntrySpec == StoreInit /\ [][EntryNext]_vars

(***************************************************************************)
(* Clients of one Redis server running RedisCacheBackend.set and           *)
(* invalidate_dependency at the same time: every step is one command       *)
(***************************************************************************)
RaceTag == "A"
RaceValue == Val("str", "v1")
RaceClients == {"a", "b"}

\* op: the method; key, ttl: its arguments; pc: the next command to send;
\* seen: the reply the method keeps in a local (cache_keys, current_ttl)
Client(op, key, ttl, pc, seen) == [op |-> op, key |-> key, ttl |-> ttl, pc |-> pc, seen |-> seen]
SetClient(k, ttl) == Client("set", k, ttl, "setex", 0)
InvalidateClient == Client("invalidate", "", TTL_NONE, "smembers", {})

AllDone == \A p \in RaceClients : procs.run[p].pc = "done"

Step(p, c) == [procs EXCEPT !.run[p] = c]
RaceRest == UNCHANGED <<last, lastSet, scen, live, decoVars, ctxVars, regVars, keyVars, excVars, thrVars>>

\* before the clients start, the store is empty or holds one entry tagged T
RaceSeed ==
  /\ procs.phase = "seed"
  /\ \/ store' = store
     \/ \E k \in ManualKeys, ttl \in ManualTtls :
          store' = backend_set(store, k, RaceValue, ttl, {RaceTag})
  /\ procs' = [procs EXCEPT !.phase = "race", !.base = store']
  /\ RaceRest

\* set: self.redis.setex(cache_key, ttl, serialized_value) / self.redis.set(...)
RaceSetValue(p) ==
  LET c == procs.run[p]
  IN /\ procs.phase = "race" /\ c.pc = "setex"
     /\ store' = IF Truthy(c.ttl) THEN redis_setex(store, c.key, c.ttl, dump(RaceValue))
                                  ELSE redis_set(store, c.key, dump(RaceValue))
     /\ procs' = Step(p, [c EXCEPT !.pc = "sadd"])
     /\ RaceRest

\* set: self.redis.sadd(dep_key, cache_key)
RaceSadd(p) ==
  LET c == procs.run[p]
  IN /\ procs.phase = "race" /\ c.pc = "sadd"
     /\ store' = redis_sadd(store, RaceTag, c.key)
     /\ procs' = Step(p, [c EXCEPT !.pc = IF Truthy(c.ttl) THEN "ttl" ELSE "done"])
     /\ RaceRest

\* set: current_ttl = self.redis.ttl(dep_key), and the comparison on it
RaceTtl(p) ==
  LET c == procs.run[p]
      current_ttl == redis_ttl(store, RaceTag)
  IN /\ procs.phase = "race" /\ c.pc = "ttl"
     /\ procs' = Step(p, [c EXCEPT !.seen = current_ttl,
                                   !.pc = IF current_ttl = REDIS_PERSISTENT
                                             \/ (current_ttl # REDIS_MISSING /\ current_ttl < c.ttl)
                                            THEN "expire" ELSE "done"])
     /\ UNCHANGED store
     /\ RaceRest

\* set: self.redis.expire(dep_key, ttl)
RaceExpire(p) ==
  LET c == procs.run[p]
  IN /\ procs.phase = "race" /\ c.pc = "expire"
     /\ store' = redis_expire(store, RaceTag, c.ttl)
     /\ procs' = Step(p, [c EXCEPT !.pc = "done"])
     /\ RaceRest

\* invalidate_dependency: cache_keys = self.redis.smembers(dep_key)
RaceSmembers(p) ==
  LET c == procs.run[p]
      cache_keys == redis_smembers(store, RaceTag)
  IN /\ procs.phase = "race" /\ c.pc = "smembers"
     /\ procs' = Step(p, [c EXCEPT !.seen = cache_keys,
                                   !.pc = IF cache_keys = {} THEN "done" ELSE "delete"])
     /\ UNCHANGED store
     /\ RaceRest

\* invalidate_dependency: count = self.redis.delete(*cache_keys)
RaceDelete(p) ==
  LET c == procs.run[p]
  IN /\ procs.phase = "race" /\ c.pc = "delete"
     /\ store' = redis_delete(store, c.seen)
     /\ procs' = Step(p, [c EXCEPT !.pc = "delete_index"])
     /\ RaceRest

\* invalidate_dependency: self.redis.delete(dep_key)
RaceDeleteIndex(p) ==
  LET c == procs.run[p]
  IN /\ procs.phase = "race" /\ c.pc = "delete_index"
     /\ store' = redis_delete_set(store, {RaceTag})
     /\ procs' = Step(p, [c EXCEPT !.pc = "done"])
     /\ RaceRest

\* once both clients have returned, one more invalidate_dependency(T) runs
\* with nothing beside it
RaceFurtherInvalidate ==
  /\ procs.phase = "race" /\ AllDone
  /\ store' = invalidate_dependency(store, RaceTag)
  /\ procs' = [procs EXCEPT !.phase = "end"]
  /\ RaceRest

\* client a sets k1; client b sets k2 or invalidates T
RaceInit ==
  /\ StoreGhostInit
  /\ DecoInit(CHOOSE c \in Programs : c.funcs = {"o", "i"})
  /\ CtxInit
  /\ KeyIdle /\ ExcIdle /\ ThrIdle
  /\ RegReady
  /\ \E ta \in ManualTtls, b \in {SetClient("k2", tb) : tb \in ManualTtls} \cup {InvalidateClient} :
       procs = [phase |-> "seed", base |-> EmptyStore,
                run |-> [p \in RaceClients |-> IF p = "a" THEN SetClient("k1", ta) ELSE b]]

RaceNext ==
  \/ RaceSeed
  \/ \E p \in RaceClients : RaceSetValue(p)
  \/ \E p \in RaceClients : RaceSadd(p)
  \/ \E p \in RaceClients : RaceTtl(p)
  \/ \E p \in RaceClients : RaceExpire(p)
  \/ \E p \in RaceClients : RaceSmembers(p)
  \/ \E p \in RaceClients : RaceDelete(p)
  \/ \E p \in RaceClients : RaceDeleteIndex(p)
  \/ RaceFurtherInvalidate

RaceSpec == RaceInit /\ [][RaceNext]_vars

(***************************************************************************)
(* One decorated function that raises, called again and again: the         *)
(* exception objects by identity                                           *)
(***************************************************************************)
MaxInstances == 3
ExcClasses == {"ValueError", "LocalValueError", "TypeError", "KeyError"}
ExcArgs == {"boom", "x"}
ExcListed == {[none |-> FALSE, types |-> {c}] : c \in {"ValueError", "KeyError", "Exception"}}

\* an exception object: id is its identity
Instance(id, exc) == [id |-> id, exc |-> exc]
NoInstance == Instance(0, PyNone)

ExcRest == UNCHANGED <<last, lastSet, scen, live, decoVars, ctxVars, regVars, raceVars, keyVars, thrVars>>

\* a miss: the function raises a new object; the wrapper persists it when
\* cache_exception_types lists one of its classes, and raises the same object
ExcMiss ==
  /\ excs.next <= MaxInstances
  /\ ~is_hit(backend_get(store, FuncKey("f")))
  /\ \E cls \in ExcClasses, arg \in ExcArgs :
       LET exception == ExcVal(cls, arg)
       IN /\ store' = IF should_cache_exception(exception, excs.types)
                        THEN backend_set(store, FuncKey("f"), exception, TTL_NONE, {})
                        ELSE store
          /\ excs' = [excs EXCEPT !.raised = Instance(excs.next, exception),
                                  !.reraised = NoInstance,
                                  !.next = @ + 1]
  /\ ExcRest

\* a hit: the backend decodes the entry into a new object, which
\* _handle_cache_hit raises
ExcHit ==
  /\ excs.next <= MaxInstances
  /\ is_hit(backend_get(store, FuncKey("f")))
  /\ LET out == handle_cache_hit(backend_get(store, FuncKey("f")))
     IN /\ out.raise
        /\ excs' = [excs EXCEPT !.reraised = Instance(excs.next, out.val), !.next = @ + 1]
  /\ UNCHANGED store
  /\ ExcRest

\* the entry is deleted, the next call is a miss
ExcDelete ==
  /\ is_hit(backend_get(store, FuncKey("f")))
  /\ store' = backend_delete(store, {FuncKey("f")})
  /\ excs' = [excs EXCEPT !.raised = NoInstance, !.reraised = NoInstance]
  /\ ExcRest

ExcInit ==
  /\ StoreGhostInit
  /\ DecoInit(CHOOSE c \in Programs : c.funcs = {"o", "i"})
  /\ CtxInit
  /\ RegReady
  /\ RaceIdle /\ KeyIdle /\ ThrIdle
  /\ \E types \in ExcListed :
       excs = [types |-> types, raised |-> NoInstance, reraised |-> NoInstance, next |-> 1]

ExcNext ==
  \/ ExcMiss
  \/ ExcHit
  \/ ExcDelete

ExcSpec == ExcInit /\ [][ExcNext]_vars

\* the nested pair on one manager and on two, with invalidations in between
NestInit ==
  /\ StoreGhostInit
  /\ \E c \in NestPrograms : DecoInit(c)
  /\ CtxInit
  /\ RaceIdle /\ KeyIdle /\ ExcIdle /\ ThrIdle
  /\ RegReady

NestNext ==
  \/ Call
  \/ Lookup
  \/ BodyCall
  \/ BodyEnd
  \/ Persist
  \/ Notify
  \/ Cleanup
  \/ Return
  \/ EnvInvalidate
  \/ EnvDelete

NestSpec == NestInit /\ [][NestNext]_vars

(***************************************************************************)
(* manager.py: threads calling get_or_create_cache_manager at once.  The   *)
(* managers are told apart by identity: each construction makes a new one. *)
(***************************************************************************)
ThreadIds == {"t1", "t2", "t3"}
NoThread == ""
NoInstanceId == 0

\* a thread: where it is in the function, the name it asked for, its local
\* variable manager, and what it returned
Thread(pc, name, manager, ret) == [pc |-> pc, name |-> name, manager |-> manager, ret |-> ret]

\* variant: the body runs without the lock
lock_free_always(lock) == TRUE

\* with _manager_lock: the lock can be taken when no thread holds it
lock_free(lock) == lock = NoThread

ThrRest == UNCHANGED <<storeVars, decoVars, ctxVars, regVars, raceVars, keyVars, excVars>>

\* a thread calls get_or_create_cache_manager(name)
ThrCall(t) ==
  /\ threads.run[t].pc = "idle"
  /\ \E name \in RegNames :
       threads' = [threads EXCEPT !.run[t] = Thread("lock", name, NoInstanceId, NoInstanceId)]
  /\ ThrRest

\* with _manager_lock: entered
ThrAcquire(t) ==
  /\ threads.run[t].pc = "lock"
  /\ lock_free(threads.lock)
  /\ threads' = [threads EXCEPT !.lock = t, !.run[t].pc = "lookup"]
  /\ ThrRest

\* if name in _managers: manager = _managers[name]
ThrLookup(t) ==
  /\ threads.run[t].pc = "lookup"
  /\ threads' = [threads EXCEPT !.run[t].manager = threads.managers[threads.run[t].name],
                                 !.run[t].pc = "create"]
  /\ ThrRest

\* if not config.cache_enabled: return None (the configuration is the one
\* RedisConfig() reads from the environment, for every thread and manager);
\* if manager is None: manager = create_cache_manager(...); _managers[name] = manager
ThrCreate(t) ==
  /\ threads.run[t].pc = "create"
  /\ LET me == threads.run[t]
     IN threads' = IF ~configs[EnvConfig].cache_enabled
                     THEN [threads EXCEPT !.run[t].manager = NoInstanceId, !.run[t].pc = "release"]
                   ELSE IF me.manager = NoInstanceId
                     THEN [threads EXCEPT !.made = @ + 1,
                                          !.managers[me.name] = threads.made + 1,
                                          !.run[t].manager = threads.made + 1,
                                          !.run[t].pc = "release"]
                     ELSE [threads EXCEPT !.run[t].pc = "release"]
  /\ ThrRest

\* the with block is left; return manager
ThrReturn(t) ==
  /\ threads.run[t].pc = "release"
  /\ threads' = [threads EXCEPT !.lock = IF @ = t THEN NoThread ELSE @,
                                 !.run[t].ret = threads.run[t].manager,
                                 !.run[t].pc = "done"]
  /\ ThrRest

\* no manager registered, no thread in the function
ThrInit ==
  /\ StoreGhostInit
  /\ DecoInit(CHOOSE c \in Programs : c.funcs = {"o", "i"})
  /\ CtxInit
  /\ RaceIdle /\ KeyIdle /\ ExcIdle
  /\ RegInit
  /\ threads = [lock |-> NoThread, made |-> 0, managers |-> [n \in RegNames |-> NoInstanceId],
                run |-> [t \in ThreadIds |-> Thread("idle", "", NoInstanceId, NoInstanceId)]]

ThrNext ==
  \/ \E t \in ThreadIds : ThrCall(t)
  \/ \E t \in ThreadIds : ThrAcquire(t)
  \/ \E t \in ThreadIds : ThrLookup(t)
  \/ \E t \in ThreadIds : ThrCreate(t)
  \/ \E t \in ThreadIds : ThrReturn(t)

ThrSpec == ThrInit /\ [][ThrNext]_vars

\* the nested pair with a tag added under an explicit manager name
CrossInit ==
  /\ StoreGhostInit
  /\ \E c \in CrossPrograms : DecoInit(c)
  /\ CtxInit
  /\ RaceIdle /\ KeyIdle /\ ExcIdle /\ ThrIdle
  /\ RegReady

CrossNext ==
  \/ Call
  \/ Lookup
  \/ BodyAddDependency
  \/ BodyCall
  \/ BodyEnd
  \/ Persist
  \/ Notify
  \/ Cleanup
  \/ Return
  \/ EnvDelete

CrossSpec == CrossInit /\ [][CrossNext]_vars

\* the nested pair where o catches what i raises, on a backend that may fail
CatchInit ==
  /\ StoreGhostInit
  /\ \E c \in CatchPrograms : DecoInit(c)
  /\ CtxInit
  /\ RaceIdle /\ KeyIdle /\ ExcIdle /\ ThrIdle
  /\ RegReady

CatchNext ==
  \/ Call
  \/ Lookup
  \/ BodyCall
  \/ BodyEnd
  \/ Persist
  \/ Notify
  \/ Cleanup
  \/ Return
  \/ EnvDelete

CatchSpec == CatchInit /\ [][CatchNext]_vars

\* one function whose value is falsy, None or an exception
ValInit ==
  /\ StoreGhostInit
  /\ \E c \in ValPrograms : DecoInit(c)
  /\ CtxInit
  /\ RaceIdle /\ KeyIdle /\ ExcIdle /\ ThrIdle
  /\ RegReady

ValNext ==
  \/ Call
  \/ Lookup
  \/ BodyAddDependency
  \/ BodyEnd
  \/ Persist
  \/ Notify
  \/ Cleanup
  \/ Return
  \/ EnvInvalidate
  \/ EnvDelete

ValSpec == ValInit /\ [][ValNext]_vars

\* the nested pair with TTLs from the decorator and from both bodies
TtlInit ==
  /\ StoreGhostInit
  /\ \E c \in TtlPrograms : DecoInit(c)
  /\ CtxInit
  /\ RaceIdle /\ KeyIdle /\ ExcIdle /\ ThrIdle
  /\ RegReady

TtlNext ==
  \/ Call
  \/ Lookup
  \/ BodySetCacheTtl
  \/ BodyCall
  \/ BodyEnd
  \/ Persist
  \/ Notify
  \/ Cleanup
  \/ Return
  \/ EnvDelete

TtlSpec == TtlInit /\ [][TtlNext]_vars

CtxPushAction ==
  /\ \E t \in TaskIds : CtxPush(t)
  /\ UNCHANGED <<storeVars, decoVars, regVars, raceVars, keyVars, excVars, thrVars>>

CtxPopAction ==
  /\ \E t \in TaskIds : CtxPop(t)
  /\ UNCHANGED <<storeVars, decoVars, regVars, raceVars, keyVars, excVars, thrVars>>

CtxAddDependencyAction ==
  /\ \E t \in TaskIds : CtxAddDependency(t)
  /\ UNCHANGED <<storeVars, decoVars, regVars, raceVars, keyVars, excVars, thrVars>>

CtxSetCacheTtlAction ==
  /\ \E t \in TaskIds : CtxSetCacheTtl(t)
  /\ UNCHANGED <<storeVars, decoVars, regVars, raceVars, keyVars, excVars, thrVars>>

CtxSetCurrentCacheKeyAction ==
  /\ \E t \in TaskIds : CtxSetCurrentCacheKey(t)
  /\ UNCHANGED <<storeVars, decoVars, regVars, raceVars, keyVars, excVars, thrVars>>

CtxSpawnAction ==
  /\ \E t \in TaskIds, child \in TaskIds, kind \in SpawnKinds : CtxSpawn(t, child, kind)
  /\ UNCHANGED <<storeVars, decoVars, regVars, raceVars, keyVars, excVars, thrVars>>

CtxSpecInit ==
  /\ StoreGhostInit
  /\ DecoInit(CHOOSE c \in Programs : c.funcs = {"o", "i"})
  /\ CtxInit
  /\ RaceIdle /\ KeyIdle /\ ExcIdle /\ ThrIdle
  /\ RegReady

CtxNext ==
  \/ CtxPushAction
  \/ CtxPopAction
  \/ CtxAddDependencyAction
  \/ CtxSetCacheTtlAction
  \/ CtxSetCurrentCacheKeyAction
  \/ CtxSpawnAction

CtxSpec == CtxSpecInit /\ [][CtxNext]_vars

\* one thread calling context.py directly on its operation stack
StackRest == <<storeVars, cfg, calls, intact, prev, invalO, lastCall, heap, tasks, actor,
               regVars, raceVars, keyVars, excVars, thrVars>>

\* push_operation_context(manager, key, manager_obj, dependencies=...): with
\* no dependencies ("f"), or with the set object of o's decorator; with
\* manager None ("") and no dependencies
StackPush ==
  /\ Len(opstack) < MaxFrames
  /\ \E manager_name \in ManagerNames \cup {""}, fn \in {"f", "o"} :
       /\ manager_name = "" => fn = "f"
       /\ opstack' = push_operation_context(opstack, statics, fn, manager_name, FuncKey(fn), TTL_NONE)
  /\ lastCtx' = CtxCall("push", PyNone, Len(opstack))
  /\ UNCHANGED <<statics, StackRest>>

StackPop ==
  /\ opstack' = pop_stack(opstack, statics)
  /\ statics' = pop_statics(opstack, statics)
  /\ lastCtx' = CtxCall("pop", pop_return(opstack, statics), Len(opstack))
  /\ UNCHANGED StackRest

StackAddDependency ==
  /\ \E manager \in {""} \cup ManagerNames :
       /\ opstack' = add_dependency_to_stack(opstack, statics, CtxTag, manager)
       /\ statics' = add_dependency_to_statics(opstack, statics, CtxTag, manager)
       /\ lastCtx' = [CtxCall("add_dependency", PyNone, Len(opstack)) EXCEPT !.arg = manager]
  /\ UNCHANGED StackRest

\* the thread sets a TTL, or the key, outside any operation or in its
\* outermost one
StackSetCacheTtl ==
  /\ Len(opstack) <= 1
  /\ opstack' = set_cache_ttl(opstack, CtxTtl)
  /\ lastCtx' = CtxCall("set_cache_ttl", PyNone, Len(opstack))
  /\ UNCHANGED <<statics, StackRest>>

StackSetCurrentCacheKey ==
  /\ Len(opstack) <= 1
  /\ opstack' = set_current_cache_key(opstack, CtxKey)
  /\ lastCtx' = CtxCall("set_current_cache_key", PyNone, Len(opstack))
  /\ UNCHANGED <<statics, StackRest>>

StackReset ==
  /\ opstack' = reset(opstack)
  /\ lastCtx' = CtxCall("reset", PyNone, Len(opstack))
  /\ UNCHANGED <<statics, StackRest>>

StackNext ==
  \/ StackPush
  \/ StackPop
  \/ StackAddDependency
  \/ StackSetCacheTtl
  \/ StackSetCurrentCacheKey
  \/ StackReset

StackSpec == CtxSpecInit /\ [][StackNext]_vars

\* clients of the registry
RegGetOrCreateAction ==
  /\ \E name \in {NoName} \cup RegNames, config \in {NoConfig} \cup ConfigIds,
        backend \in {NoBackend} \cup BackendIds :
       GetOrCreate(name, config, backend)
  /\ UNCHANGED <<storeVars, decoVars, ctxVars, raceVars, keyVars, excVars, thrVars>>

RegSetCacheEnabledAction ==
  /\ \E c \in ConfigIds, value \in BOOLEAN : SetCacheEnabled(c, value)
  /\ UNCHANGED <<storeVars, decoVars, ctxVars, raceVars, keyVars, excVars, thrVars>>

RegSpecInit ==
  /\ StoreGhostInit
  /\ DecoInit(CHOOSE c \in Programs : c.funcs = {"o", "i"})
  /\ CtxInit
  /\ RaceIdle /\ KeyIdle /\ ExcIdle /\ ThrIdle
  /\ RegInit

RegNext ==
  \/ RegGetOrCreateAction
  \/ RegSetCacheEnabledAction

RegSpec == RegSpecInit /\ [][RegNext]_vars

\* decorated calls against a backend that may fail, with observer callbacks,
\* while caching is switched off and on
EnvSetCacheEnabled ==
  /\ \E value \in BOOLEAN : SetCacheEnabled(EnvConfig, value)
  /\ UNCHANGED <<storeVars, decoVars, ctxVars, raceVars, keyVars, excVars, thrVars>>

FaultInit ==
  /\ StoreGhostInit
  /\ \E c \in FaultPrograms : DecoInit(c)
  /\ CtxInit
  /\ RaceIdle /\ KeyIdle /\ ExcIdle /\ ThrIdle
  /\ RegReady

FaultNext ==
  \/ Call
  \/ Lookup
  \/ BodyAddDependency
  \/ BodyEnd
  \/ Persist
  \/ Notify
  \/ Cleanup
  \/ Return
  \/ EnvClear
  \/ EnvSetCacheEnabled

FaultSpec == FaultInit /\ [][FaultNext]_vars

(***************************************************************************)
(* Cache keys of calls with arguments                                      *)
(*   a string is the sequence of its characters                            *)
(***************************************************************************)
\* arguments: a str, or an object with a __cache_key__ attribute; oid tells
\* instances apart
StrArg(text) == [kind |-> "str", text |-> text, oid |-> 0]
ObjArg(oid, text) == [kind |-> "obj", text |-> text, oid |-> oid]

ArgValues ==
  {StrArg(<<"a">>), StrArg(<<"b">>), StrArg(<<"a", ",", "b">>),
   ObjArg(1, <<"a">>), ObjArg(2, <<"a">>)}

\* keyword names in sorted order, and the values passed by keyword
KwNames == <<"x", "y">>
KwValues == {StrArg(<<"a">>)}
NoArg == [kind |-> "", text |-> <<>>, oid |-> 0]

\* f(*args, **kwargs) with up to two positional arguments
KeyCalls ==
  [args : {<<>>} \cup {<<a>> : a \in ArgValues} \cup {<<a, b>> : a \in ArgValues, b \in ArgValues},
   kwargs : [{"x", "y"} -> KwValues \cup {NoArg}]]

\* _get_cache_key_for_arg: str(arg.__cache_key__), or str(arg)
get_cache_key_for_arg(arg) ==
  IF arg.kind = "obj" THEN arg.text ELSE arg.text

\* the positional part and the keyword part of arg_parts
RECURSIVE PositionalParts(_)
PositionalParts(args) ==
  IF args = <<>> THEN <<>>
  ELSE <<get_cache_key_for_arg(Head(args))>> \o PositionalParts(Tail(args))

RECURSIVE KeywordParts(_, _)
KeywordParts(names, kwargs) ==
  IF names = <<>> THEN <<>>
  ELSE (IF kwargs[Head(names)] = NoArg THEN <<>>
        ELSE <<(<<Head(names), "=">> \o get_cache_key_for_arg(kwargs[Head(names)]))>>)
       \o KeywordParts(Tail(names), kwargs)

arg_parts(call) == PositionalParts(call.args) \o KeywordParts(KwNames, call.kwargs)

\* ",".join(parts)
RECURSIVE Join(_)
Join(parts) ==
  IF parts = <<>> THEN <<>>
  ELSE IF Tail(parts) = <<>> THEN Head(parts)
  ELSE Head(parts) \o <<",">> \o Join(Tail(parts))

\* hashlib.md5(text).hexdigest(), taken to be free of collisions
md5(text) == [md5 |-> text]

\* _generate_cache_key(func, args, kwargs) for the function f
generate_cache_key_args(call) ==
  md5(<<"f", "(">> \o Join(arg_parts(call)) \o <<")">>)

\* the keys of two calls are generated
KeyGenerate ==
  /\ keyCalls # <<>> /\ keyOut = <<>>
  /\ keyOut' = <<generate_cache_key_args(keyCalls[1]), generate_cache_key_args(keyCalls[2])>>
  /\ UNCHANGED <<storeVars, decoVars, ctxVars, regVars, raceVars, keyCalls, excVars, thrVars>>

KeyInit ==
  /\ StoreGhostInit
  /\ DecoInit(CHOOSE c \in Programs : c.funcs = {"o", "i"})
  /\ CtxInit
  /\ RegReady
  /\ RaceIdle /\ ExcIdle /\ ThrIdle
  /\ \E a \in KeyCalls, b \in KeyCalls : keyCalls = <<a, b>>
  /\ keyOut = <<>>

KeyNext == KeyGenerate

KeySpec == KeyInit /\ [][KeyNext]_vars

TypeOK ==
  /\ \A k \in Keys : store.cacheTtl[k] \in {REDIS_MISSING, REDIS_PERSISTENT} \cup (1..MaxTTL)
  /\ \A k \in Keys : (store.cache[k] = NoDoc) <=> (store.cacheTtl[k] = REDIS_MISSING)
  /\ \A t \in Tags : (store.deps[t] = {}) <=> (store.depsTtl[t] = REDIS_MISSING)
  /\ Len(opstack) <= Len(calls)

(***************************************************************************)
(* Properties of the store (StoreSpec)                                     *)
(***************************************************************************)
Max(a, b) == IF a >= b THEN a ELSE b

\* C3: when N distinct keys were set with tag T and nothing else touched
\* them, invalidate_dependency(T) returns N and removes exactly those N
\* entries, and a repeated call returns 0 (N = 0: a tag never used).
C3_TagInvalidation ==
  [][\A t \in Tags :
       (last'.op = "invalidate" /\ ManagerInvalidate(t) /\ scen[t].ok) =>
         /\ last'.ret = Cardinality(scen[t].keys)
         /\ \A k \in scen[t].keys : redis_exists(store, k) /\ ~redis_exists(store', k)
         /\ \A k \in Keys \ scen[t].keys : store'.cache[k] = store.cache[k]
         /\ invalidate_dependency_count(store', t) = 0]_vars

C3_Witness ==
  /\ last.op = "invalidate" /\ last.clean /\ last.ret = 2
  /\ \A k \in ManualKeys : ~redis_exists(store, k)

\* C4: a key that exists is a member of T's index if and only if the most
\* recent set of the key included T.
C4_MemberIffLatestSet ==
  \A k \in Keys, t \in Tags :
    redis_exists(store, k) =>
      ((k \in store.deps[t]) <=> (lastSet[k].ever /\ t \in lastSet[k].tags))

\* C5: a set with ttl t on a tag whose index has a remaining TTL c > 0
\* leaves the index with TTL max(t, c).
C5_IndexTtlIsMax ==
  [][(last'.op = "set" /\ Truthy(last'.ttl)) =>
       \A t \in lastSet'[last'.key].tags :
         store.depsTtl[t] > 0 => store'.depsTtl[t] = Max(last'.ttl, store.depsTtl[t])]_vars

\* a set with ttl 1 on a tag whose index keeps its longer TTL
C5_Witness ==
  /\ last.op = "set" /\ last.ttl = 1
  /\ \E t \in lastSet[last.key].tags : store.depsTtl[t] = 2

\* C6: an index that exists without a TTL is not given one by a later set.
C6_PersistentIndexStaysPersistent ==
  [][\A t \in Tags :
       (last'.op = "set" /\ store.depsTtl[t] = REDIS_PERSISTENT) =>
         store'.depsTtl[t] = REDIS_PERSISTENT]_vars

\* C7: invalidate_dependency(T) deletes the members of T's index and the
\* index; every other key keeps its value and expiry, also a key tagged with
\* the name of a deleted key, and every other index stays as it is.
C7_InvalidateFrame ==
  [][\A t \in Tags :
       (last'.op = "invalidate" /\ ManagerInvalidate(t)) =>
         LET members == store.deps[t]
         IN /\ \A k \in members : ~redis_exists(store', k)
            /\ store'.deps[t] = {}
            /\ \A k \in Keys \ members :
                 store'.cache[k] = store.cache[k] /\ store'.cacheTtl[k] = store.cacheTtl[k]
            /\ \A u \in Tags \ {t} :
                 store'.deps[u] = store.deps[u] /\ store'.depsTtl[u] = store.depsTtl[u]]_vars

C7_Witness ==
  /\ last.op = "invalidate" /\ last.ret = 1
  /\ ~redis_exists(store, "k1")
  /\ redis_exists(store, "k2")
  /\ "k2" \in store.deps["k1"]
  /\ store.deps["A"] = {}

(***************************************************************************)
(* Properties of decorated calls (Spec)                                    *)
(***************************************************************************)
\* what the body of fn does when it runs: its return value or exception
BodyOutcome(c, fn) == Body(c, fn)[Len(Body(c, fn))].out
Finished(fn) == lastCall.fn = fn

\* C1: a second call of a deterministic function, with no invalidation,
\* delete, clear or expiry since its entry was persisted, does not execute
\* the body and returns a value equal to the one returned before.
C1_IdempotentHit ==
  \A fn \in FuncNames :
    (Finished(fn) /\ ~BodyOutcome(cfg, fn).raise /\ lastCall.intact) =>
      /\ ~lastCall.executed
      /\ lastCall.out = lastCall.prev

\* C2: once "i" or "o" was invalidated while o's result was cached, the next
\* call of o executes o's body.
C2_NestedPropagation ==
  (Finished("o") /\ lastCall.inval \cap {"i", "o"} # {}) => lastCall.executed

\* the expiry Redis reports for an entry stored with ttl: 0 and None both
\* mean no expiry
StoredTtl(ttl) == IF Truthy(ttl) THEN ttl ELSE REDIS_PERSISTENT

\* the TTL the entry of fn has to get: the value of the set_cache_ttl call
\* made in the body, else the ttl= of the decorator
ExpectedTtl(c, fn) ==
  IF fn = "f" /\ c.dyn # NoCall THEN c.dyn ELSE DecoratorTtl(c, fn)

\* C8: a miss stores its entry with the TTL given to set_cache_ttl inside the
\* call if there was such a call, else with the decorator's ttl, else with no
\* expiry.
C8_TtlPrecedence ==
  [][(Running("persist") /\ last'.op = "set") =>
       store'.cacheTtl[generate_cache_key(Top.fn)] = StoredTtl(ExpectedTtl(cfg, Top.fn))]_vars

\* decorator ttl 1, set_cache_ttl(2) in the body: stored with 2
C8_Witness ==
  /\ Running("notify") /\ Top.fn = "f" /\ last.op = "set"
  /\ cfg.ttl = 1 /\ cfg.dyn = 2
  /\ store.cacheTtl["key_f"] = 2

Lists(c, cls) == ~c.excTypes.none /\ cls \in c.excTypes.types
Unset(c) == c.excTypes.none \/ c.excTypes.types = {}
RaisesValueError(c) == c.outcome.raise /\ c.outcome.val.cls = "ValueError"

\* C9: f raises ValueError.  With ValueError listed, the first call executes
\* the body and every later call raises the same type and message without
\* executing it, as long as the entry was not removed; with no type listed
\* every call executes the body and raises f's exception.
C9_ExceptionCaching ==
  (Finished("f") /\ RaisesValueError(cfg)) =>
    /\ lastCall.out.raise
    /\ lastCall.out.val.cls = cfg.outcome.val.cls
    /\ lastCall.out.val.msg = cfg.outcome.val.msg
    /\ Lists(cfg, "ValueError") =>
         /\ lastCall.intact => ~lastCall.executed
         /\ lastCall.prev = NoOutcome => lastCall.executed
    /\ Unset(cfg) => (lastCall.executed /\ lastCall.out.val = cfg.outcome.val)

\* the second call: served from the cached exception
C9_Witness ==
  /\ Finished("f") /\ RaisesValueError(cfg) /\ Lists(cfg, "ValueError")
  /\ lastCall.intact /\ ~lastCall.executed
  /\ lastCall.prev.raise /\ lastCall.out.raise

\* the exception the running body raised, PyNone if it returned
BodyRaised(a) == IF a.raised # PyNone THEN a.raised ELSE a.exception

\* C10: on a miss whose function raises e, an entry is written if and only
\* if cache_exception_types is non-empty and e is an instance of a listed
\* type, and e is raised to the caller in every case.
C10_ExceptionWrittenIffListed ==
  [][/\ (Running("persist") /\ BodyRaised(Top) # PyNone) =>
          ((last'.op = "set") <=>
             (/\ ~Unset(cfg)
              /\ \E t \in DecoratorExcTypes(cfg, Top.fn).types : t \in ExcBases(BodyRaised(Top).cls)))
     /\ (Running("return") /\ Top.executed /\ BodyRaised(Top) # PyNone) =>
          lastCall'.out = Outcome(TRUE, BodyRaised(Top))]_vars

(***************************************************************************)
(* Properties of the operation stack under tasks (CtxSpec)                 *)
(***************************************************************************)
\* u spawned t, or the two were spawned by the same thread or task
SpawnerOrSibling(u, t) ==
  /\ u # t /\ Alive(u) /\ Alive(t)
  /\ tasks[t].parent = u \/ (tasks[t].parent # "" /\ tasks[t].parent = tasks[u].parent)

\* C11: a context call made by a thread or task changes nothing that the
\* context getters return in its spawner or in a sibling.
C11_TaskIsolation ==
  [][\A u \in TaskIds :
       SpawnerOrSibling(u, actor') => View(u)' = View(u)]_vars

(***************************************************************************)
(* Properties of the registry (RegSpec)                                    *)
(***************************************************************************)
\* the configuration a call decides on when the name is not registered
CallConfig(g) == IF g.config = NoConfig THEN EnvConfig ELSE g.config

\* C19 as stated: a call for a registered name returns the registered manager
\* and leaves the registry as it is.
C19_RegisteredManagerReturned ==
  [][(lastGet'.called /\ lastGet'.before.exists) =>
       /\ lastGet'.ret = lastGet'.before
       /\ managers' = managers]_vars

\* C19 amended: a call for a registered name ignores its config and backend
\* arguments, builds nothing and leaves the registry as it is; it returns the
\* registered manager while that manager's own configuration has caching
\* enabled, and None with a warning while it has not.  A registered manager
\* is never replaced.
C19_RegisteredManagerWins ==
  [][/\ (lastGet'.called /\ lastGet'.before.exists) =>
          /\ managers' = managers
          /\ ~lastGet'.built
          /\ IF configs[lastGet'.before.config].cache_enabled
               THEN lastGet'.ret = lastGet'.before /\ ~lastGet'.warned
               ELSE lastGet'.ret = NoManager /\ lastGet'.warned
     /\ \A n \in RegNames : managers[n].exists => managers'[n] = managers[n]]_vars

\* a registered manager returned to a caller that passed another backend and
\* another configuration, one with caching disabled
C19_Witness ==
  /\ lastGet.called /\ lastGet.before.exists
  /\ lastGet.ret = lastGet.before
  /\ lastGet.config \notin {NoConfig, lastGet.before.config}
  /\ lastGet.backend \notin {NoBackend, lastGet.before.backend}
  /\ ~configs[lastGet.config].cache_enabled

\* C20: for a name that is not registered, a call whose configuration has
\* caching disabled returns None with a warning, builds no backend and
\* leaves the registry unchanged.
C20_DisabledReturnsNone ==
  [][(/\ lastGet'.called
      /\ ~lastGet'.before.exists
      /\ ~configs[CallConfig(lastGet')].cache_enabled) =>
       /\ lastGet'.ret = NoManager
       /\ lastGet'.warned
       /\ ~lastGet'.built
       /\ managers' = managers]_vars

C20_Witness ==
  /\ lastGet.called /\ ~lastGet.before.exists
  /\ lastGet.config = "c2" /\ lastGet.backend = NoBackend
  /\ ~configs["c2"].cache_enabled
  /\ lastGet.ret = NoManager /\ lastGet.warned
  /\ \A n \in RegNames : ~managers[n].exists

(***************************************************************************)
(* Properties of decorated calls with backend faults and callbacks         *)
(* (FaultSpec)                                                             *)
(***************************************************************************)
\* the invocation that returned last went through the manager / pushed a frame
Managed(a) == a.fn # "" /\ ~a.direct
Pushed(a) == Managed(a) /\ a.executed

\* C12: every decorated call that pushed a frame has popped it when it
\* leaves the wrapper, whatever the exit path: the depth and the top frame
\* of the operation stack after the call are those before it.
C12_FramePopped ==
  Pushed(lastCall.act) =>
    /\ lastCall.depth_after = lastCall.act.depth
    /\ lastCall.topkey_after = lastCall.act.topkey

\* C13: with silent_backend_errors=True a failing lookup counts as a miss and
\* a failing persist is skipped: the function body runs exactly once for that
\* call, the caller gets the body's own return value or exception, and no
\* backend error is on its way to a caller or reaches one; a call whose
\* lookup fails always runs the body.
C13_SilentBackendErrors ==
  cfg.silent =>
    /\ \A i \in 1..Len(calls) : calls[i].raised # BackendError
    /\ LET a == lastCall.act
       IN Managed(a) =>
            /\ lastCall.out.val # BackendError
            /\ (a.getFailed \/ a.setFailed) =>
                  /\ a.executed
                  /\ a.runs = 1
                  /\ lastCall.out = BodyOutcome(cfg, a.fn)

\* a second call in a row whose lookup and persist both failed, and which ran
\* the body again and delivered its outcome
C13_Witness ==
  /\ cfg.silent
  /\ Managed(lastCall.act)
  /\ lastCall.act.getFailed /\ lastCall.act.setFailed
  /\ lastCall.act.runs = 1
  /\ lastCall.prev = lastCall.out
  /\ lastCall.out = BodyOutcome(cfg, lastCall.fn)

\* the step is a lookup or a persist whose backend call fails
BackendFails ==
  /\ Len(calls) > 0 /\ Len(calls') = Len(calls)
  /\ \/ ~Top.getFailed /\ Top'.getFailed
     \/ ~Top.setFailed /\ Top'.setFailed

\* key has the same value and the same index memberships in both stores
SameEntry(r1, r2, key) ==
  /\ r1.cache[key] = r2.cache[key]
  /\ \A t \in Tags : (key \in r1.deps[t]) <=> (key \in r2.deps[t])

\* C14: with silent_backend_errors=False a backend failure during lookup or
\* persist leaves the wrapper as that same error, the caller receives it, and
\* the failing step leaves the value and the index memberships of the call's
\* key as they were.
C14_ErrorsPropagateNoSideEffect ==
  [][~cfg.silent =>
       /\ BackendFails =>
            /\ Top'.pc = "return" /\ Top'.raised = BackendError
            /\ SameEntry(store, store', FuncKey(Top.fn))
       /\ (Running("return") /\ (Top.getFailed \/ Top.setFailed) /\ Len(calls') < Len(calls)) =>
            lastCall'.out = Outcome(TRUE, BackendError)]_vars

\* the body's exception, or its return value, is one the wrapper persists
Persists(c, fn) ==
  BodyOutcome(c, fn).raise => should_cache_exception(BodyOutcome(c, fn).val, DecoratorExcTypes(c, fn))

\* with a callback of one of the kinds cbs the caller receives the outcome of
\* the body (on a hit, the cached one), no exception of the callback is on its
\* way out of a wrapper, the entry is persisted whenever the outcome is one
\* to persist, and the frame pushed on a miss is popped
ContainedFor(cbs) ==
  (cfg.cb \in cbs /\ ~cfg.faulty) =>
    /\ \A i \in 1..Len(calls) : calls[i].raised \notin {CallbackError, CallbackInterrupt}
    /\ LET a == lastCall.act
       IN Managed(a) =>
            /\ lastCall.out = BodyOutcome(cfg, a.fn)
            /\ a.executed =>
                  /\ a.wrote <=> Persists(cfg, a.fn)
                  /\ lastCall.depth_after = a.depth
                  /\ lastCall.topkey_after = a.topkey

\* C15: an exception raised by the observer callback, on a hit or on a miss,
\* never reaches the caller and never changes the outcome of the call: with
\* a callback that raises, whatever it raises, the caller receives the same
\* value or exception, the same entry is persisted and the frame is popped
\* as with a callback that returns.
C15_CallbackErrorContained ==
  ContainedFor({"sync", "raises", "interrupts"})

\* the invocation was a cache hit
WasHit(a) == Managed(a) /\ a.hit # NoOutcome

\* C16: on every cache hit the observer callback has been invoked exactly
\* once, with is_hit=True and the cached value, when the wrapper returns or
\* raises; hits on a cached exception included.
C16_CallbackOnEveryHit ==
  (valid_callback(cfg.cb) /\ WasHit(lastCall.act)) =>
    lastCall.act.cbs = <<CbCall(TRUE, lastCall.act.hit.val)>>

\* C17: on every cache miss, whether the body returns or raises, the
\* observer callback has been invoked exactly once, with is_hit=False and
\* cached_result=None; with the hit case, exactly once per decorated call on
\* an enabled manager and a working backend.
C17_CallbackOncePerCall ==
  (valid_callback(cfg.cb) /\ ~cfg.faulty /\ Managed(lastCall.act)) =>
    /\ Len(lastCall.act.cbs) = 1
    /\ lastCall.act.executed => lastCall.act.cbs = <<CbCall(FALSE, PyNone)>>

\* what the registry returns to the wrapper in this state
Resolved == get_or_create_cache_manager(managers, configs, NoName, NoConfig, NoBackend).ret

\* a step of the invocation on top
WrapperMoves == Len(calls) > 0 /\ calls' # calls

\* C18: when the registry returns no manager because caching is disabled,
\* the decorated call runs the function directly, on every call: the wrapper
\* issues no backend operation and leaves the store as it is, pushes no frame
\* (depth and top frame of the operation stack stay the same through the
\* body and up to the return), invokes no callback, runs the body once and
\* hands its outcome to the caller.
C18_DisabledRunsDirectly ==
  [][/\ (WrapperMoves /\ Running("lookup") /\ ~Resolved.exists) =>
          /\ Top'.direct /\ Top'.pc = "body"
          /\ Top'.cbs = <<>>
          /\ opstack' = opstack
     /\ (WrapperMoves /\ Top.direct) =>
          /\ store' = store /\ last'.op = "wrapper"
          /\ Len(opstack') = Top.depth
          /\ current_cache_key(opstack') = Top.topkey
          /\ Running("return") =>
                /\ lastCall'.act.cbs = <<>>
                /\ lastCall'.act.runs = 1
                /\ lastCall'.out = BodyOutcome(cfg, Top.fn)]_vars

\* a direct call that ran the body although an entry for its key is cached,
\* after an earlier call with the same outcome
C18_Witness ==
  /\ lastCall.act.direct
  /\ lastCall.act.runs = 1
  /\ lastCall.act.cbs = <<>>
  /\ valid_callback(cfg.cb)
  /\ redis_exists(store, FuncKey(lastCall.fn))
  /\ lastCall.prev = lastCall.out

(***************************************************************************)
(* Properties of the cache key (KeySpec)                                   *)
(***************************************************************************)
\* C21: for one decorated function, two calls get the same key exactly when
\* their sequences of argument representations (positional ones, then the
\* sorted k=v ones) are equal; sequences that differ in length or in any
\* representation get different keys.
C21_KeyStability ==
  keyOut # <<>> =>
    ((keyOut[1] = keyOut[2]) <=> (arg_parts(keyCalls[1]) = arg_parts(keyCalls[2])))

(***************************************************************************)
(* Properties of the operation stack (StackSpec)                           *)
(***************************************************************************)
\* the dependency sets of a frame, per manager name
DepsOf(st, fr) == [m \in ManagerNames |-> frame_deps(st, fr, m)]

\* C22: pop_operation_context removes the top frame, leaves in the new top
\* frame, per manager name, the union of what that frame had and what the
\* popped frame had, returns the dependency map of the popped frame, and
\* leaves the parent's cache key and TTL (and the frames below it) alone.
C22_PopMergesIntoParent ==
  [][(lastCtx'.op = "pop" /\ HasCurrent(opstack)) =>
       LET popped == current_operation(opstack)
           n == Len(opstack) - 1
       IN /\ Len(opstack') = n
          /\ lastCtx'.ret = DepsOf(statics, popped)
          /\ n > 0 =>
                /\ \A m \in ManagerNames :
                     frame_deps(statics', opstack'[n], m) =
                       frame_deps(statics, opstack[n], m) \cup frame_deps(statics, popped, m)
                /\ opstack'[n].cache_key = opstack[n].cache_key
                /\ opstack'[n].cache_ttl = opstack[n].cache_ttl
                /\ opstack'[n].manager_name = opstack[n].manager_name
                /\ \A i \in 1..(n - 1) : opstack'[i] = opstack[i]]_vars

\* after a pop the parent holds tags of its own under its manager name next
\* to those of the child, an entry under the other manager name that only
\* the child had, and the TTL and key it was given
C22_Witness ==
  /\ lastCtx.op = "pop"
  /\ HasCurrent(opstack)
  /\ LET parent == current_operation(opstack)
     IN /\ parent.manager_name = DefaultManager /\ parent.alias # ""
        /\ lastCtx.ret[OtherManager] = {CtxTag}
        /\ frame_deps(statics, parent, OtherManager) = {CtxTag}
        /\ lastCtx.ret[DefaultManager] = {CtxTag}
        /\ frame_deps(statics, parent, DefaultManager) = {"o", CtxTag}
        /\ parent.cache_ttl = CtxTtl /\ parent.cache_key = CtxKey

\* the empty dependency map
NoDeps == [m \in ManagerNames |-> {}]

C23_EntryLifetime ==
  \A k \in ManualKeys :
    /\ redis_exists(store, k) <=> live[k].present
    /\ backend_get(store, k) = live[k].val
    /\ live[k].present =>
          store.cacheTtl[k] = IF live[k].left = 0 THEN REDIS_PERSISTENT ELSE live[k].left

\* an entry whose latest set replaced another value exists next to a key
\* that was set and has been removed by an invalidation
C23_Witness ==
  /\ live["k1"].present /\ live["k1"].replaced
  /\ backend_get(store, "k1") = Val("str", "v2")
  /\ lastSet["k2"].ever /\ ~redis_exists(store, "k2")
  /\ last.op = "invalidate" /\ last.ret = 1

\* the store after the set of client x followed by the set of client y, both
\* run alone on the store the clients started from
SequentialSets(x, y) ==
  backend_set(backend_set(procs.base, procs.run[x].key, RaceValue, procs.run[x].ttl, {RaceTag}),
              procs.run[y].key, RaceValue, procs.run[y].ttl, {RaceTag})

\* C24: two sets on different keys that both carry tag T, interleaved command
\* by command in any way, leave the store as the two sets run one after the
\* other leave it, in either order
C24_ConcurrentSetsCommute ==
  (procs.phase = "race" /\ AllDone /\ \A p \in RaceClients : procs.run[p].op = "set")
    => /\ store = SequentialSets("a", "b")
       /\ store = SequentialSets("b", "a")

\* C25: after invalidate_dependency(T) has raced set(k, {T}) and both have
\* returned, one more invalidate_dependency(T) run alone leaves no entry for k
C25_MissIsTemporary ==
  (procs.phase = "end" /\ \E p \in RaceClients : procs.run[p].op = "invalidate")
    => \A p \in RaceClients : procs.run[p].op = "set" => ~redis_exists(store, procs.run[p].key)

\* C26: the exception a hit raises is another object than the one the
\* function raised, with the same type name and the same str()
C26_CachedExceptionReraised ==
  excs.reraised # NoInstance
    => /\ excs.reraised.id # excs.raised.id
       /\ excs.reraised.exc.cls = excs.raised.exc.cls
       /\ str(excs.reraised.exc) = str(excs.raised.exc)

\* o's wrapper is about to read its frame and persist, or has just persisted,
\* after its body called i and that call was a miss
ChildMissed(pc) ==
  /\ calls # <<>> /\ Top.fn = "o" /\ Top.pc = pc
  /\ lastCall.fn = "i" /\ lastCall.act.executed /\ ~lastCall.act.direct

\* C29: when the parent reads its dependencies to persist, the child's frame
\* is gone from the stack and the parent's frame is the current one; and the
\* tag set the parent persists holds every tag the child's miss recorded
C29_ChildMergedBeforeParentPersists ==
  /\ ChildMissed("persist")
       => /\ Len(opstack) = Top.depth + 1
          /\ current_cache_key(opstack) = generate_cache_key("o")
  /\ (ChildMissed("notify") /\ Top.wrote)
       => lastSet[generate_cache_key("i")].tags \subseteq lastSet[generate_cache_key("o")].tags

\* the wrapper on top is at its lookup and the store holds a value under its key
AtPresentEntry ==
  /\ calls # <<>> /\ Top.pc = "lookup"
  /\ backend_get(store, generate_cache_key(Top.fn)) # PyNone

\* the wrapper on top has taken the hit path and is about to return
HitReturning == calls # <<>> /\ Top.pc = "return" /\ Top.hit # NoOutcome

\* C28: the lookup that finds a value and the return that follows it leave
\* the operation stack, the dependency sets of every frame and the store as
\* they were: nothing is pushed or popped, nothing is set, and the function
\* is not executed
C28_HitChangesNothing ==
  [][/\ (AtPresentEntry /\ calls' # calls)
          => /\ opstack' = opstack /\ statics' = statics
             /\ store' = store /\ lastSet' = lastSet
             /\ calls'[Len(calls')].pc = "return"
             /\ ~calls'[Len(calls')].executed /\ calls'[Len(calls')].runs = 0
     /\ (HitReturning /\ calls' # calls)
          => /\ opstack' = opstack /\ statics' = statics
             /\ store' = store /\ lastSet' = lastSet]_vars

\* i's call inside o's body was a hit, and o's frame is on the stack with the
\* dependency sets it had
C28_Witness ==
  /\ calls # <<>> /\ Top.fn = "o" /\ Top.pc = "body"
  /\ lastCall.fn = "i" /\ lastCall.act.hit # NoOutcome /\ ~lastCall.act.executed
  /\ Len(opstack) = 1 /\ get_current_dependencies(opstack, statics) = {"o"}

\* the wrapper on top took the miss path: it pushed a frame for the call
Missed(a) == a.executed /\ ~a.direct
\* the frame the wrapper pushed is the current one
FrameOpen(a) ==
  /\ Len(opstack) = a.depth + 1
  /\ current_cache_key(opstack) = generate_cache_key(a.fn)
\* the persist step is behind: the entry was written, or the write failed, or
\* there was nothing to write (an exception the decorator does not list)
PersistDone(a) ==
  \/ a.wrote
  \/ a.setFailed
  \/ (a.exception # PyNone /\ ~should_cache_exception(a.exception, DecoratorExcTypes(cfg, a.fn)))
\* the callback step is behind: a usable callback was called once, with is_hit
\* false
CallbackDone(a) ==
  a.cbs = IF valid_callback(cfg.cb) THEN <<CbCall(FALSE, PyNone)>> ELSE <<>>
\* what reaches the caller is the function's own value or exception
Delivers(a) == WrapperOutcome(a) = BodyOutcome(cfg, a.fn)

\* C27: on a miss the frame is open while the function runs; the frame is
\* read and the entry written after the function has run and before the
\* callback; the callback runs before the frame is popped; and the function's
\* value or exception reaches the caller only after the pop
C27_MissStepOrder ==
  (calls # <<>> /\ Missed(Top)) =>
    /\ Top.pc = "body" => FrameOpen(Top) /\ Top.runs = 0 /\ ~PersistDone(Top) /\ Top.cbs = <<>>
    /\ Top.pc = "persist" => FrameOpen(Top) /\ Top.runs = 1 /\ ~Top.wrote /\ ~Top.setFailed
                               /\ Top.cbs = <<>>
    /\ Top.pc = "notify" => FrameOpen(Top) /\ Top.runs = 1 /\ PersistDone(Top) /\ Top.cbs = <<>>
    /\ Top.pc = "cleanup" => FrameOpen(Top) /\ Top.runs = 1 /\ PersistDone(Top) /\ CallbackDone(Top)
    /\ (Top.pc = "return" /\ Delivers(Top))
         => /\ Len(opstack) = Top.depth
            /\ Top.runs = 1 /\ PersistDone(Top) /\ CallbackDone(Top)

\* a miss with a callback is about to hand the function's value to the
\* caller: the entry was written, the callback called, the frame popped
C27_Witness ==
  /\ calls # <<>> /\ Missed(Top) /\ Top.pc = "return" /\ Delivers(Top)
  /\ ~WrapperOutcome(Top).raise
  /\ Top.wrote /\ Top.cbs = <<CbCall(FALSE, PyNone)>>
  /\ Len(opstack) = Top.depth

\* C31: add_dependency(tag, manager=...) leaves the number of frames and
\* every frame below the top as they were; in the top frame the tag joins the
\* set kept under the manager name given, or under the frame's own name when
\* none is given, and nothing else changes; with no name to resolve nothing
\* changes at all
C31_AddDependencyTopOnly ==
  [][lastCtx'.op = "add_dependency" =>
       LET n == Len(opstack)
       IN /\ Len(opstack') = n
          /\ \A i \in 1..(n - 1) :
               /\ DepsOf(statics', opstack'[i]) = DepsOf(statics, opstack[i])
               /\ opstack'[i].manager_name = opstack[i].manager_name
               /\ opstack'[i].cache_key = opstack[i].cache_key
               /\ opstack'[i].cache_ttl = opstack[i].cache_ttl
          /\ n > 0 =>
               LET target_manager == IF lastCtx'.arg # "" THEN lastCtx'.arg
                                     ELSE opstack[n].manager_name
               IN /\ \A m \in ManagerNames :
                       frame_deps(statics', opstack'[n], m) =
                         frame_deps(statics, opstack[n], m)
                           \cup (IF m = target_manager THEN {CtxTag} ELSE {})
                  /\ opstack'[n].manager_name = opstack[n].manager_name
                  /\ opstack'[n].cache_key = opstack[n].cache_key
                  /\ opstack'[n].cache_ttl = opstack[n].cache_ttl]_vars
\* C32: TTL is local to a frame. The push of a decorated call gives the new
\* frame the decorator's static ttl whatever the enclosing frame holds,
\* set_cache_ttl changes only the innermost frame, and when a call returns the
\* enclosing frame's TTL is the value it had when the call started.
FramesBelowKept(n) == \A i \in 1..n : opstack'[i] = opstack[i]

C32_TtlFrameLocal ==
  [][/\ (Running("lookup") /\ Len(opstack') = Len(opstack) + 1)
          => /\ opstack'[Len(opstack')].cache_ttl = DecoratorTtl(cfg, Top.fn)
             /\ FramesBelowKept(Len(opstack))
     /\ (Running("body") /\ CurInstr.op = "set_cache_ttl" /\ calls' # calls)
          => /\ Len(opstack') = Len(opstack)
             /\ FramesBelowKept(Len(opstack) - 1)
             /\ get_cache_ttl(opstack') = CurInstr.ttl
     /\ (Running("return") /\ Len(calls') < Len(calls))
          => /\ Len(opstack) = Top.depth
             /\ get_cache_ttl(opstack) = Top.topttl]_vars

\* the nested call ran with its own static and dynamic TTL under an enclosing
\* frame whose TTL the outer body had set, and is about to return
C32_Witness ==
  /\ Len(calls) = 2 /\ Running("return") /\ Top.fn = "i" /\ Top.executed
  /\ cfg.outerTtl = MaxTTL /\ cfg.ttl = 1 /\ cfg.dyn = TTL_NONE
  /\ Len(opstack) = 1 /\ get_cache_ttl(opstack) = MaxTTL

\* C33: threads calling get_or_create_cache_manager at once for names that
\* are not registered yet: for each name at most one manager is ever
\* constructed, and every thread that has returned holds the manager
\* registered under the name it asked for (with caching enabled; disabled,
\* nothing is constructed and every thread gets None).
ConstructedFor(n) ==
  {threads.managers[n]} \cup {threads.run[t].manager : t \in {u \in ThreadIds : threads.run[u].name = n}}

C33_OneManagerPerName ==
  threads # <<>> =>
    /\ \A n \in RegNames : Cardinality(ConstructedFor(n) \ {NoInstanceId}) <= 1
    /\ \A t \in ThreadIds :
         threads.run[t].pc = "done"
           => /\ threads.run[t].ret # NoInstanceId <=> configs[EnvConfig].cache_enabled
              /\ threads.run[t].ret = threads.managers[threads.run[t].name]
    /\ threads.made = Cardinality({n \in RegNames : threads.managers[n] # NoInstanceId})

\* three threads asked for the same name at once and all have returned
C33_Witness ==
  /\ threads # <<>>
  /\ \A t \in ThreadIds : threads.run[t].pc = "done" /\ threads.run[t].name = "other"
  /\ threads.made = 1

\* C34: the set object a decorator was given as dependencies= holds, after
\* any number of calls, the tags it held at decoration time; tags added during
\* a call are not in it, so they cannot reach a later call's tag set.
C34_StaticDependenciesKept ==
  \A fn \in cfg.funcs : statics[fn] = DecoratorDeps(fn)

\* C35: with nothing but sets and the passage of time, a key that still
\* exists and whose latest set included tag T is a member of T's index: the
\* index does not expire before its member keys.
C35_IndexOutlivesMembers ==
  \A k \in Keys, t \in Tags :
    (redis_exists(store, k) /\ lastSet[k].ever /\ t \in lastSet[k].tags)
      => k \in redis_smembers(store, t)

\* C36: the lookup of a decorated call is a hit if and only if the value
\* read is not None.  A hit, falsy values included, returns without a frame
\* and without running the function; a call whose lookup yields None pushes
\* a frame, runs the function once and issues a set.
AtLookup == calls # <<>> /\ Top.pc = "lookup" /\ calls' # calls

HitIffNotNone ==
  AtLookup =>
    LET read == backend_get(store, generate_cache_key(Top.fn))
        after == calls'[Len(calls')]
    IN IF read # PyNone
         THEN /\ after.pc = "return" /\ after.hit = handle_cache_hit(read)
              /\ ~after.executed /\ opstack' = opstack
         ELSE /\ after.pc = "body" /\ after.executed
              /\ Len(opstack') = Len(opstack) + 1

MissReturning == calls # <<>> /\ Top.pc = "return" /\ Top.executed /\ ~Top.direct

C36_HitIffNotNone ==
  [][/\ HitIffNotNone
     /\ (MissReturning /\ calls' # calls) => (Top.runs = 1 /\ Top.wrote)]_vars

\* C36 as it holds: the set is issued when the function returned, or raised
\* an exception that cache_exception_types selects, and not when it raised
\* another Exception
C36_HitIffNotNoneSetWhenCached ==
  [][/\ HitIffNotNone
     /\ (MissReturning /\ calls' # calls)
          => /\ Top.runs = 1
             /\ (~BodyOutcome(cfg, Top.fn).raise
                 \/ should_cache_exception(BodyOutcome(cfg, Top.fn).val, DecoratorExcTypes(cfg, Top.fn)))
                  <=> Top.wrote]_vars

\* the function returned False on a miss, and a later call is served False
\* from the cache without running it
C36_Witness ==
  /\ calls # <<>> /\ Top.pc = "return" /\ ~Top.executed
  /\ Top.hit = Outcome(FALSE, Val("bool", "False"))
  /\ prev[Top.fn] = Outcome(FALSE, Val("bool", "False"))

\* C37: a decorated call on manager M persists its entry with exactly the
\* tags its frame holds under M's name; tags the frame holds under another
\* manager name are not passed to that set, and the pop carries every
\* manager's tags to the enclosing frame under the same name.
OwnManager(fn) == IF DecoratorName(cfg, fn) = NoName THEN DefaultManager ELSE DecoratorName(cfg, fn)

C37_PersistsOwnManagerTags ==
  [][/\ (Running("persist") /\ calls' # calls /\ last'.op = "set")
          => LET top == current_operation(opstack)
             IN /\ top.manager_name = OwnManager(Top.fn)
                /\ lastSet'[generate_cache_key(Top.fn)].tags = frame_deps(statics, top, OwnManager(Top.fn))
     /\ (Running("cleanup") /\ calls' # calls /\ Len(opstack) >= 2)
          => LET popped == current_operation(opstack)
                 n == Len(opstack) - 1
             IN \A m \in ManagerNames :
                  frame_deps(statics', opstack'[n], m) =
                    frame_deps(statics, opstack[n], m) \cup frame_deps(statics, popped, m)]_vars

\* i, on manager "other", added "x" under "cache" and was persisted with its
\* own tag only; back in o's body, o's frame holds "x" under "cache"
C37_Witness ==
  /\ cfg.inner = OtherManager /\ cfg.cross = DefaultManager
  /\ calls # <<>> /\ Top.fn = "o" /\ Top.pc = "body"
  /\ lastCall.fn = "i" /\ lastCall.act.wrote
  /\ lastSet[generate_cache_key("i")].tags = {"i"}
  /\ Len(opstack) = 1
  /\ "x" \in frame_deps(statics, opstack[1], DefaultManager)
  /\ "i" \in frame_deps(statics, opstack[1], OtherManager)

\* C38: the pop at the end of a miss merges the frame's tags into the
\* enclosing frame whether or not anything was persisted.  When the nested
\* call raised an exception that is not cached, or its set failed silently,
\* and the enclosing call catches and returns, the nested call's tags are in
\* the tag set the enclosing call persists.
ChildLeftNothing ==
  /\ calls # <<>> /\ Top.fn = "o" /\ Top.pc = "persist"
  /\ lastCall.fn = "i" /\ lastCall.act.executed /\ ~lastCall.act.wrote

C38_PopMergesWithoutPersist ==
  [][/\ (Running("cleanup") /\ calls' # calls /\ Len(opstack) >= 2)
          => LET popped == current_operation(opstack)
                 n == Len(opstack) - 1
             IN /\ Len(opstack') = n
                /\ \A m \in ManagerNames :
                     frame_deps(statics, popped, m) \subseteq frame_deps(statics', opstack'[n], m)
     /\ (ChildLeftNothing /\ calls' # calls)
          => /\ DecoratorDeps("i") \subseteq get_current_dependencies(opstack, statics)
             /\ last'.op = "set"
                  => DecoratorDeps("i") \subseteq lastSet'[generate_cache_key("o")].tags]_vars

\* i raised a ValueError that is not cached, o caught it, returned and was
\* persisted with i's tag
C38_Witness ==
  /\ calls # <<>> /\ Top.fn = "o" /\ Top.pc = "notify" /\ Top.wrote
  /\ lastCall.fn = "i" /\ lastCall.act.executed /\ ~lastCall.act.wrote
  /\ lastCall.out.raise /\ lastCall.out.val.cls = "ValueError"
  /\ ~redis_exists(store, generate_cache_key("i"))
  /\ lastSet[generate_cache_key("o")].tags = {"o", "i"}

\* C39: a set that fails part-way leaves no partial state: after the failed
\* set of a decorated call either the store is as it was before the set, or
\* the key is a member of the index of every tag passed to the set.
C39_FailedSetLeavesNoPartialState ==
  [][(Running("persist") /\ last'.op = "set_failed")
       => \/ store' = store
          \/ \A t \in get_current_dependencies(opstack, statics) :
               generate_cache_key(Top.fn) \in redis_smembers(store', t)]_vars

====
